---- MODULE Spec2Model ----
(***************************************************************************)
(* Transaction ingestion and categorization pipeline of finance-local      *)
(* (backend/app): statement import with fingerprint dedup, merchant        *)
(* get-or-create, the categorization precedence chain, rule mining, the    *)
(* statement parser's failure handling and the classifier's training       *)
(* entry points.                                                           *)
(*                                                                         *)
(* Text is modelled as a sequence of lexemes: a lexeme is either a maximal *)
(* run of alphanumerics (a word, written as a string) or one separator     *)
(* character (" ", "_", ".", "*", "-", "/", "#").  Case conversion,        *)
(* whitespace splitting, joining and regex search are computed on that     *)
(* sequence.                                                               *)
(***************************************************************************)
EXTENDS Integers, Sequences, FiniteSets, TLC

VARIABLES
    txns,        \* transactions table: sequence of rows, id = index
    merchants,   \* merchants table: sequence of rows, id = index
    rules,       \* category_rules table: sequence of rows, id = index
    overrides,   \* merchant_overrides table: sequence of rows, id = index
    imports,     \* imports table: sequence of rows, id = index
    runs,        \* what each POST /imports returned, in request order
    used,        \* how many requests of each bounded kind have run
    call,        \* the last call the claims look at: its inputs and result
    models,      \* /data/models: per household the persisted metadata, or None
    artifacts,   \* /data/models: per household the file model.joblib
    inflight     \* the requests that have begun and not ended: their locals

vars == <<txns, merchants, rules, overrides, imports, runs, used, call, models, artifacts, inflight>>

\* None for an id or a count (ids start at 1); an absent text (NULL) is the
\* empty sequence: no column of the model ever holds an empty string
None == 0
NoText == <<>>

------------------------------------------------------------------------------
(* Bounds of the model *)

MaxImports == 2
MaxUpdates == 1
MaxRules == 2

------------------------------------------------------------------------------
(* Lexemes and text helpers *)

Whitespace == {" "}
NonAlnum == {" ", "_", ".", "*", "-", "/", "#"}

\* str.upper() on one lexeme
Upper(x) ==
    CASE x \in {"Coffee", "coffee", "COFFEE"} -> "COFFEE"
      [] x \in {"Shop", "shop", "SHOP"} -> "SHOP"
      [] x \in {"netflix", "Netflix", "NETFLIX"} -> "NETFLIX"
      [] x \in {"com", "COM"} -> "COM"
      [] OTHER -> x

\* str.lower() on one lexeme
Lower(x) ==
    CASE x \in {"Coffee", "coffee", "COFFEE"} -> "coffee"
      [] x \in {"Shop", "shop", "SHOP"} -> "shop"
      [] x \in {"netflix", "Netflix", "NETFLIX"} -> "netflix"
      [] x \in {"com", "COM"} -> "com"
      [] x = "POS" -> "pos"
      [] x = "PURCHASE" -> "purchase"
      [] x = "AMZN" -> "amzn"
      [] x = "MKTP" -> "mktp"
      [] x = "THE" -> "the"
      [] x = "GYM" -> "gym"
      [] x = "SEATTLE" -> "seattle"
      [] x = "WA" -> "wa"
      [] x = "Deposits" -> "deposits"
      [] x = "Withdrawals" -> "withdrawals"
      [] x = "Total" -> "total"
      [] x = "Ending" -> "ending"
      [] OTHER -> x

UpperText(s) == [i \in 1..Len(s) |-> Upper(s[i])]
LowerText(s) == [i \in 1..Len(s) |-> Lower(s[i])]

\* len() of one word lexeme
WordLen(x) ==
    CASE Upper(x) \in {"COFFEE", "AMAZON"} -> 6
      [] Upper(x) \in {"SHOP", "AMZN", "MKTP"} -> 4
      [] Upper(x) \in {"NETFLIX", "UNKNOWN", "SEATTLE"} -> 7
      [] Upper(x) \in {"COM", "POS", "THE", "GYM"} -> 3
      [] Upper(x) = "PURCHASE" -> 8
      [] Upper(x) \in {"42", "WA"} -> 2
      [] Upper(x) = "90210" -> 5
      [] OTHER -> 1

\* str.isdigit() on one word lexeme
IsDigits(x) == x \in {"42", "7", "90210"}

\* the word consists of letters A-Z only (LETTERS_ONLY_PATTERN, [A-Z]{2,})
IsLetters(x) == x \notin NonAlnum /\ ~IsDigits(x)

\* len() of a text
RECURSIVE TextLen(_)
TextLen(s) == IF s = <<>> THEN 0 ELSE WordLen(Head(s)) + TextLen(Tail(s))

RECURSIVE SplitAcc(_, _, _, _)
SplitAcc(s, delims, cur, acc) ==
    IF s = <<>>
    THEN (IF cur = <<>> THEN acc ELSE Append(acc, cur))
    ELSE IF Head(s) \in delims
         THEN SplitAcc(Tail(s), delims, <<>>,
                       IF cur = <<>> THEN acc ELSE Append(acc, cur))
         ELSE SplitAcc(Tail(s), delims, Append(cur, Head(s)), acc)

\* the non-empty maximal chunks of s between delimiters (str.split())
Split(s, delims) == SplitAcc(s, delims, <<>>, <<>>)

RECURSIVE Join(_)
\* " ".join(chunks)
Join(chunks) ==
    IF chunks = <<>> THEN <<>>
    ELSE IF Len(chunks) = 1 THEN chunks[1]
         ELSE chunks[1] \o <<" ">> \o Join(Tail(chunks))

\* text.startswith(prefix)
StartsWith(text, prefix) ==
    /\ Len(text) >= Len(prefix)
    /\ SubSeq(text, 1, Len(prefix)) = prefix

Min(a, b) == IF a < b THEN a ELSE b

\* text.strip()
RECURSIVE LStrip(_)
LStrip(s) == IF s # <<>> /\ Head(s) \in Whitespace THEN LStrip(Tail(s)) ELSE s
RECURSIVE RStrip(_)
RStrip(s) ==
    IF s # <<>> /\ s[Len(s)] \in Whitespace
    THEN RStrip(SubSeq(s, 1, Len(s) - 1)) ELSE s
Strip(s) == RStrip(LStrip(s))

------------------------------------------------------------------------------
(* ingest/service.py: fingerprint *)

\* re.sub(r"\s+", " ", description.strip().lower())
_normalize_description(description) ==
    Join(Split(LowerText(Strip(description)), Whitespace))

\* An amount is a Decimal: its sign (1: negative), its coefficient and the
\* number of digits after the point.  Decimal("-0.00") is (1, 0, 2),
\* Decimal("4.5") is (0, 45, 1)
Decimal(sign, digits, places) ==
    [sign |-> sign, digits |-> digits, places |-> places]

\* the Decimal the parser makes of an amount with two digits after the
\* point, given in cents
Cents(a) == Decimal(IF a < 0 THEN 1 ELSE 0, IF a < 0 THEN -a ELSE a, 2)

\* f"{amount}": the sign, the digits of the coefficient and the place of the
\* point are all written, so the text tells Decimal("4.5") from
\* Decimal("4.50") and Decimal("0.00") from Decimal("-0.00")
FormatAmount(amount) ==
    <<IF amount.sign = 1 THEN "-" ELSE "", amount.digits, amount.places>>

\* sha256 of "date|amount|normalized", taken as injective on its input; the
\* date is written by isoformat(), which is injective
_compute_fingerprint(posted_date, amount, description) ==
    <<posted_date, FormatAmount(amount), _normalize_description(description)>>

------------------------------------------------------------------------------
(* categorize/merchant.py: merchant key extraction *)

UNKNOWN == <<"UNKNOWN">>

\* STRIP_PREFIXES, in table order
STRIP_PREFIXES == <<
    <<"POS", " ", "PURCHASE">>, <<"POS", " ", "PUR">>, <<"POS", " ", "DEBIT">>,
    <<"POS", " ", "REFUND">>, <<"DEBIT", " ", "CARD", " ", "PURCHASE">>,
    <<"DEBIT", " ", "CARD", " ", "REFUND">>, <<"DEBIT", " ", "CARD">>,
    <<"CREDIT", " ", "CARD">>, <<"CHECKCARD">>, <<"CHECK", " ", "CARD">>,
    <<"VISA", " ", "DEBIT">>, <<"VISA", " ", "CREDIT">>,
    <<"MASTERCARD", " ", "DEBIT">>, <<"MASTERCARD", " ", "CREDIT">>,
    <<"RECURRING", " ", "PAYMENT">>, <<"RECURRING">>, <<"PREAUTHORIZED">>,
    <<"PRE", "-", "AUTHORIZED">>, <<"AUTHORIZED">>, <<"PURCHASE">>,
    <<"WITHDRAWAL">>, <<"ACH", " ", "DEBIT">>, <<"ACH", " ", "CREDIT">>,
    <<"ACH", " ", "PAYMENT">>, <<"ACH">>, <<"WIRE", " ", "TRANSFER">>,
    <<"WIRE">>, <<"ONLINE", " ", "TRANSFER">>, <<"ONLINE", " ", "PAYMENT">>,
    <<"ONLINE">>, <<"MOBILE", " ", "PAYMENT">>, <<"MOBILE", " ", "TRANSFER">>,
    <<"MOBILE">>, <<"ZELLE", " ", "PAYMENT">>, <<"ZELLE", " ", "TO">>,
    <<"ZELLE", " ", "FROM">>, <<"ZELLE">>, <<"VENMO", " ", "PAYMENT">>,
    <<"VENMO", " ", "CASHOUT">>, <<"VENMO">>, <<"PAYPAL", " ", "TRANSFER">>,
    <<"PAYPAL", " ", "PAYMENT">>, <<"PAYPAL">>, <<"SQUARE", " ", "PAYMENT">>,
    <<"SQUARE">>, <<"CASH", " ", "APP">>, <<"ATM", " ", "WITHDRAWAL">>,
    <<"ATM", " ", "DEPOSIT">>, <<"ATM">>, <<"DEPOSIT">>, <<"REFUND">>,
    <<"RETURN">> >>

GENERIC_TOKENS == {
    "PAYMENT", "TRANSFER", "CHECK", "WITHDRAWAL", "DEPOSIT", "ONLINE", "CARD",
    "DEBIT", "CREDIT", "PURCHASE", "TRANSACTION", "TXN", "REF", "REFERENCE",
    "CONF", "CONFIRMATION", "AUTH", "AUTHORIZED", "PENDING", "POSTED",
    "PROCESSED", "COMPLETED", "FROM", "TO", "FOR", "THE", "AND", "INC", "LLC",
    "CORP", "LTD", "CO", "POS" }

\* MERCHANT_MAPPINGS, in table order: <<match_type, pattern, canonical_name>>
MERCHANT_MAPPINGS == <<
    <<"startswith", <<"COSTCO">>, <<"COSTCO">> >>,
    <<"startswith", <<"AMZN">>, <<"AMAZON">> >>,
    <<"contains", <<"AMAZON">>, <<"AMAZON">> >>,
    <<"startswith", <<"AMAZN">>, <<"AMAZON">> >>,
    <<"equals", <<"WAL", "-", "MART">>, <<"WALMART">> >>,
    <<"startswith", <<"WALMART">>, <<"WALMART">> >>,
    <<"startswith", <<"WAL", " ", "MART">>, <<"WALMART">> >>,
    <<"startswith", <<"TARGET">>, <<"TARGET">> >>,
    <<"startswith", <<"STARBUCKS">>, <<"STARBUCKS">> >>,
    <<"startswith", <<"SBUX">>, <<"STARBUCKS">> >>,
    <<"startswith", <<"MCDONALD">>, <<"MCDONALDS">> >>,
    <<"startswith", <<"NETFLIX">>, <<"NETFLIX">> >>,
    <<"startswith", <<"SPOTIFY">>, <<"SPOTIFY">> >>,
    <<"startswith", <<"UBER", " ", "EATS">>, <<"UBER", " ", "EATS">> >>,
    <<"startswith", <<"UBEREATS">>, <<"UBER", " ", "EATS">> >>,
    <<"startswith", <<"UBER">>, <<"UBER">> >>,
    <<"startswith", <<"LYFT">>, <<"LYFT">> >>,
    <<"startswith", <<"DOORDASH">>, <<"DOORDASH">> >>,
    <<"startswith", <<"GRUBHUB">>, <<"GRUBHUB">> >>,
    <<"startswith", <<"CHIPOTLE">>, <<"CHIPOTLE">> >>,
    <<"startswith", <<"CHEVRON">>, <<"CHEVRON">> >>,
    <<"startswith", <<"SHELL">>, <<"SHELL">> >>,
    <<"startswith", <<"EXXON">>, <<"EXXON">> >>,
    <<"startswith", <<"CVS">>, <<"CVS">> >>,
    <<"startswith", <<"WALGREENS">>, <<"WALGREENS">> >>,
    <<"startswith", <<"TRADER", " ", "JOE">>, <<"TRADER", " ", "JOES">> >>,
    <<"startswith", <<"WHOLE", " ", "FOODS">>, <<"WHOLE", " ", "FOODS">> >>,
    <<"startswith", <<"WHOLEFOODS">>, <<"WHOLE", " ", "FOODS">> >>,
    <<"startswith", <<"HOME", " ", "DEPOT">>, <<"HOME", " ", "DEPOT">> >>,
    <<"startswith", <<"HOMEDEPOT">>, <<"HOME", " ", "DEPOT">> >>,
    <<"startswith", <<"LOWES">>, <<"LOWES">> >>,
    <<"startswith", <<"LOWE'S">>, <<"LOWES">> >>,
    <<"startswith", <<"BESTBUY">>, <<"BEST", " ", "BUY">> >>,
    <<"startswith", <<"BEST", " ", "BUY">>, <<"BEST", " ", "BUY">> >> >>

\* " ".join(s.upper().split())
normalize_text(s) ==
    IF s = <<>> THEN <<>> ELSE Join(Split(UpperText(s), Whitespace))

\* SEPARATOR_PATTERN.sub(" ", text): every run of * . - _ becomes one space
RECURSIVE _normalize_separators(_)
_normalize_separators(text) ==
    IF text = <<>> THEN <<>>
    ELSE IF Head(text) \in {"*", ".", "-", "_"}
         THEN IF Len(text) > 1 /\ text[2] \in {"*", ".", "-", "_"}
              THEN _normalize_separators(Tail(text))
              ELSE <<" ">> \o _normalize_separators(Tail(text))
         ELSE <<Head(text)>> \o _normalize_separators(Tail(text))

\* the text without the prefix, stripped
AfterPrefix(text, prefix) == Strip(SubSeq(text, Len(prefix) + 1, Len(text)))

\* the loop over a prefix table: the first prefix that the text starts with
\* is removed
RECURSIVE StripPrefixFrom(_, _)
StripPrefixFrom(text, prefixes) ==
    IF prefixes = <<>> THEN text
    ELSE IF StartsWith(text, Head(prefixes))
         THEN AfterPrefix(text, Head(prefixes))
         ELSE StripPrefixFrom(text, Tail(prefixes))

_strip_prefixes(text) == StripPrefixFrom(text, STRIP_PREFIXES)

IsShortNumber(x, lo, hi) == IsDigits(x) /\ WordLen(x) >= lo /\ WordLen(x) <= hi

\* DATE_PATTERN.sub("", text): d/d or d/d/y between word boundaries
RECURSIVE _remove_dates(_)
_remove_dates(text) ==
    IF text = <<>> THEN <<>>
    ELSE IF /\ Len(text) >= 3
            /\ IsShortNumber(text[1], 1, 2) /\ text[2] = "/"
            /\ IsShortNumber(text[3], 1, 2)
         THEN IF /\ Len(text) >= 5 /\ text[4] = "/"
                 /\ IsShortNumber(text[5], 2, 4)
              THEN _remove_dates(SubSeq(text, 6, Len(text)))
              ELSE _remove_dates(SubSeq(text, 4, Len(text)))
         ELSE <<Head(text)>> \o _remove_dates(Tail(text))

\* LONG_NUMBER_PATTERN.sub("", text): digit runs of 5 or more between word
\* boundaries ("_" is a word character, so it is no boundary)
RECURSIVE RemoveLongFrom(_, _)
RemoveLongFrom(text, i) ==
    IF i > Len(text) THEN <<>>
    ELSE IF /\ IsDigits(text[i]) /\ WordLen(text[i]) >= 5
            /\ (i = 1 \/ text[i - 1] # "_")
            /\ (i = Len(text) \/ text[i + 1] # "_")
         THEN RemoveLongFrom(text, i + 1)
         ELSE <<text[i]>> \o RemoveLongFrom(text, i + 1)

_remove_long_numbers(text) == RemoveLongFrom(text, 1)

\* STORE_NUMBER_PATTERN.sub("", text): "#" followed by digits
RECURSIVE _remove_store_numbers(_)
_remove_store_numbers(text) ==
    IF text = <<>> THEN <<>>
    ELSE IF Len(text) >= 2 /\ text[1] = "#" /\ IsDigits(text[2])
         THEN _remove_store_numbers(SubSeq(text, 3, Len(text)))
         ELSE <<Head(text)>> \o _remove_store_numbers(Tail(text))

\* TRAILING_DIGITS_PATTERN.sub("", text): whitespace and a digit run at the end
_remove_trailing_digits(text) ==
    IF /\ Len(text) >= 2 /\ IsDigits(text[Len(text)])
       /\ text[Len(text) - 1] \in Whitespace
    THEN RStrip(SubSeq(text, 1, Len(text) - 1))
    ELSE text

\* the position where "\s+[A-Z]{2,}" (twoOnly: "\s+[A-Z]{2}") ending at
\* position n starts; 0 when the text does not end that way
SuffixWordStart(text, n, twoOnly) ==
    IF /\ n >= 2 /\ IsLetters(text[n]) /\ text[n - 1] \in Whitespace
       /\ (IF twoOnly THEN WordLen(text[n]) = 2 ELSE WordLen(text[n]) >= 2)
    THEN Len(RStrip(SubSeq(text, 1, n - 1))) + 1
    ELSE 0

\* CITY_STATE_PATTERN.sub("", text): t is the text without trailing
\* whitespace, st the start of its state suffix and ci of its city suffix
CityAt(text, t, ci) == IF ci > 0 THEN SubSeq(t, 1, ci - 1) ELSE text

CityStateAt(text, t, st) ==
    IF st > 1 THEN CityAt(text, t, SuffixWordStart(t, st - 1, FALSE)) ELSE text

CityStateCut(text, t) == CityStateAt(text, t, SuffixWordStart(t, Len(t), TRUE))

StripCityState(text) == CityStateCut(text, RStrip(text))

\* STATE_ONLY_PATTERN.sub("", text)
StateAt(text, t, st) == IF st > 0 THEN SubSeq(t, 1, st - 1) ELSE text

StateCut(text, t) == StateAt(text, t, SuffixWordStart(t, Len(t), TRUE))

StripStateOnly(text) == StateCut(text, RStrip(text))

\* the state suffix is removed only from a text longer than 5 characters
StateIfLong(text) == IF TextLen(text) > 5 THEN StripStateOnly(text) ELSE text

_remove_location_suffix(text) == Strip(StateIfLong(StripCityState(text)))

\* "contains": the pattern occurs somewhere in the text
Contains(text, pat) ==
    \E i \in 1..Len(text) : StartsWith(SubSeq(text, i, Len(text)), pat)

\* one mapping <<match_type, pattern, canonical_name>> matches the text
MappingHit(text, m) ==
    CASE m[1] = "startswith" -> StartsWith(text, m[2])
      [] m[1] = "contains" -> Contains(text, m[2])
      [] OTHER -> text = m[2]

RECURSIVE SpecialFrom(_, _)
SpecialFrom(text, mappings) ==
    IF mappings = <<>> THEN NoText
    ELSE IF MappingHit(text, Head(mappings)) THEN Head(mappings)[3]
         ELSE SpecialFrom(text, Tail(mappings))

\* the canonical name of the first mapping that matches, or no text
_check_special_merchants(text) == SpecialFrom(text, MERCHANT_MAPPINGS)

\* chunks of the vocabulary are single words; VALID_TOKEN_PATTERN admits
\* A-Z, 0-9, &, ., ' and -
_is_valid_token(token) ==
    /\ Len(token) = 1
    /\ token[1] \notin NonAlnum
    /\ WordLen(token[1]) >= 2
    /\ token[1] \notin GENERIC_TOKENS
    /\ ~IsDigits(token[1])

_is_strong_token(token) == IsLetters(token[1]) /\ WordLen(token[1]) >= 3

IsOtherToken(token) == ~_is_strong_token(token)

\* the valid tokens, strong ones first
StrongFirst(valid) ==
    SelectSeq(valid, _is_strong_token) \o SelectSeq(valid, IsOtherToken)

FirstTokens(all, max_tokens) == SubSeq(all, 1, Min(Len(all), max_tokens))

\* up to max_tokens valid tokens, strong ones first
_extract_tokens(text, max_tokens) ==
    FirstTokens(StrongFirst(SelectSeq(Split(text, Whitespace),
                                      _is_valid_token)),
                max_tokens)

\* a if it is a text, b otherwise
OrElse(a, b) == IF a # NoText THEN a ELSE b

\* " ".join(tokens) or UNKNOWN
TokensKey(tokens) == IF tokens = <<>> THEN UNKNOWN ELSE Join(tokens)

\* steps 11-13: special merchants again after the location suffix is gone,
\* then the tokens
KeyAfterLocation(text) ==
    OrElse(_check_special_merchants(text), TokensKey(_extract_tokens(text, 2)))

\* steps 9-10: special merchants on the cleaned text
KeyOfCleaned(text) ==
    OrElse(_check_special_merchants(text),
           KeyAfterLocation(_remove_location_suffix(text)))

\* steps 1-8: normalize, strip the prefix, separators, dates, long numbers,
\* store numbers, trailing digits, whitespace
Cleaned(description) ==
    Join(Split(_remove_trailing_digits(_remove_store_numbers(
        _remove_long_numbers(_remove_dates(_normalize_separators(
            _strip_prefixes(normalize_text(description))))))), Whitespace))

extract_merchant_key(description) ==
    IF description = <<>> THEN UNKNOWN ELSE KeyOfCleaned(Cleaned(description))

extract_display_name(description) == extract_merchant_key(description)

------------------------------------------------------------------------------
(* Regular expressions, as far as the rule patterns of the model use them.  *)
(* A pattern is a sequence of atoms: "\\b" (word boundary), a literal       *)
(* lexeme, "(" (an unbalanced parenthesis) or "a{4294967296}" (a repeat     *)
(* count above the engine's maximum).                                       *)

WordBoundary == "\\b"
REGEX_SPECIAL == {".", "*", "-", "#", " ", "("}

\* re.compile(pattern): "(" raises re.error ("missing ), unterminated
\* subpattern"); a repeat count of 4294967296 raises OverflowError ("the
\* repetition number is too large"), which is not a subclass of re.error
Compile(pattern) ==
    IF \E i \in 1..Len(pattern) : pattern[i] = "("
    THEN "re.error"
    ELSE IF \E i \in 1..Len(pattern) : pattern[i] = "a{4294967296}"
         THEN "OverflowError"
         ELSE "ok"

\* re.escape(token): a backslash before every special character
RECURSIVE Escape(_)
Escape(token) ==
    IF token = <<>> THEN <<>>
    ELSE IF Head(token) \in REGEX_SPECIAL
         THEN <<"\\", Head(token)>> \o Escape(Tail(token))
         ELSE <<Head(token)>> \o Escape(Tail(token))

\* the literal lexemes of a compiled pattern (escapes and \b removed)
RECURSIVE Literals(_)
Literals(pattern) ==
    IF pattern = <<>> THEN <<>>
    ELSE IF Head(pattern) = WordBoundary THEN Literals(Tail(pattern))
    ELSE IF Head(pattern) = "\\" /\ Len(pattern) > 1
         THEN <<pattern[2]>> \o Literals(Tail(Tail(pattern)))
         ELSE <<Head(pattern)>> \o Literals(Tail(pattern))

\* "_" and alphanumerics are word characters; position i of the text is
\* preceded (followed) by a word character
IsWordLexeme(x) == x \notin (NonAlnum \ {"_"})
WordCharBefore(text, i) == i > 1 /\ IsWordLexeme(text[i - 1])
WordCharAfter(text, i) == i < Len(text) /\ IsWordLexeme(text[i + 1])

\* \b holds between positions i-1 and i iff exactly one side is a word char
BoundaryBefore(text, i) == IsWordLexeme(text[i]) # WordCharBefore(text, i)
BoundaryAfter(text, i) == IsWordLexeme(text[i]) # WordCharAfter(text, i)

\* the literals lit of the pattern occur in the text, between the word
\* boundaries the pattern asks for
SearchLiterals(pattern, text, lit) ==
    \/ lit = <<>>
    \/ \E i \in 1..(Len(text) - Len(lit) + 1) :
          /\ \A j \in 1..Len(lit) : Upper(text[i + j - 1]) = Upper(lit[j])
          /\ Head(pattern) = WordBoundary => BoundaryBefore(text, i)
          /\ pattern[Len(pattern)] = WordBoundary
                => BoundaryAfter(text, i + Len(lit) - 1)

\* re.search(pattern, text, re.IGNORECASE) for a pattern that compiles
Search(pattern, text) == SearchLiterals(pattern, text, Literals(pattern))

------------------------------------------------------------------------------
(* categorize/engine.py *)

\* STRIP_PREFIXES of the engine, in table order
ENGINE_STRIP_PREFIXES == <<
    <<"POS", " ", "PURCHASE">>, <<"POS", " ", "PUR">>, <<"POS", " ", "DEBIT">>,
    <<"DEBIT", " ", "CARD", " ", "PURCHASE">>, <<"DEBIT", " ", "CARD">>,
    <<"CHECKCARD">>, <<"CHECK", " ", "CARD">>, <<"VISA", " ", "DEBIT">>,
    <<"MASTERCARD", " ", "DEBIT">>, <<"RECURRING", " ", "PAYMENT">>,
    <<"RECURRING">>, <<"PREAUTHORIZED">>, <<"PRE", "-", "AUTHORIZED">>,
    <<"PURCHASE">>, <<"WITHDRAWAL">>, <<"ACH", " ", "DEBIT">>,
    <<"ACH", " ", "CREDIT">>, <<"WIRE", " ", "TRANSFER">>,
    <<"ONLINE", " ", "TRANSFER">>, <<"MOBILE", " ", "PAYMENT">>,
    <<"ZELLE", " ", "PAYMENT">>, <<"ZELLE">> >>

\* re.sub(r"^[^A-Z0-9]+|[^A-Z0-9]+$", "", text)
RECURSIVE TrimNonAlnum(_)
TrimNonAlnum(text) ==
    IF text # <<>> /\ Head(text) \in NonAlnum THEN TrimNonAlnum(Tail(text))
    ELSE IF text # <<>> /\ text[Len(text)] \in NonAlnum
         THEN TrimNonAlnum(SubSeq(text, 1, Len(text) - 1))
         ELSE text

normalize_merchant_key(s) ==
    IF s = <<>> THEN <<>>
    ELSE TrimNonAlnum(StripPrefixFrom(Join(Split(UpperText(s), Whitespace)),
                                      ENGINE_STRIP_PREFIXES))

\* query(...).first(): of the ids of the rows the filter matches, the lowest,
\* or None
FirstId(ids) ==
    IF ids = {} THEN None ELSE CHOOSE i \in ids : \A j \in ids : i <= j

\* the orders in which a query ORDER BY priority ASC may return the rules
\* ids: ascending priority, rules of equal priority in any order
PriorityOrders(R, ids) ==
    {o \in [1..Cardinality(ids) -> ids] :
        /\ \A a, b \in 1..Cardinality(ids) : a # b => o[a] # o[b]
        /\ \A a, b \in 1..Cardinality(ids) :
               a < b => R[o[a]].priority <= R[o[b]].priority}

\* the enabled rules of the household, as the query may return them
RuleOrders(R, household_id) ==
    PriorityOrders(R, {i \in 1..Len(R) : /\ R[i].household_id = household_id
                                         /\ R[i].enabled})

\* what a call gives back: a category id (None: no match) or the exception
\* that left the function
Returned(category_id) == [category_id |-> category_id, raised |-> "None"]
Raised(exception) == [category_id |-> None, raised |-> exception]

\* the loop over the rules: the category of the first rule that matches and
\* has a category, None at the end of the list; a pattern that raises
\* re.error is skipped, any other exception leaves the function.
\* compiled: what re.search did with the pattern of the rule
RECURSIVE RuleLoop(_, _, _)
RuleStep(R, order, search_text, rule, compiled) ==
    IF compiled = "re.error" THEN RuleLoop(R, Tail(order), search_text)
    ELSE IF compiled # "ok" THEN Raised(compiled)
    ELSE IF Search(rule.pattern, search_text) /\ rule.category_id # None
         THEN Returned(rule.category_id)
         ELSE RuleLoop(R, Tail(order), search_text)

RuleLoop(R, order, search_text) ==
    IF order = <<>> THEN Returned(None)
    ELSE RuleStep(R, order, search_text, R[Head(order)],
                  Compile(R[Head(order)].pattern))

\* step 1: the default category of the merchant with this id
MerchantDefaultById(M, merchant_id) ==
    IF merchant_id # None /\ merchant_id \in 1..Len(M)
    THEN M[merchant_id].default_category_id ELSE None

\* the key the lookups of steps 2 and 3 use
LookupKey(description, merchant, merchant_key) ==
    IF merchant_key # NoText THEN merchant_key
    ELSE normalize_merchant_key(IF merchant # NoText THEN merchant
                                ELSE description)

DefaultOf(M, id) == IF id # None THEN M[id].default_category_id ELSE None

\* step 2: the default category of the household's merchant with this key
MerchantDefaultByKey(M, household_id, key) ==
    IF key = NoText THEN None
    ELSE DefaultOf(M, FirstId({i \in 1..Len(M) :
                                 /\ M[i].household_id = household_id
                                 /\ M[i].merchant_key = key}))

CategoryOf(O, id) == IF id # None THEN O[id].category_id ELSE None

\* step 3: the category of the household's MerchantOverride with this key
OverrideByKey(O, household_id, key) ==
    IF key = NoText THEN None
    ELSE CategoryOf(O, FirstId({i \in 1..Len(O) :
                                  /\ O[i].household_id = household_id
                                  /\ O[i].merchant_key = key}))

\* the first step that gives a category decides; the rules come last
FirstOf(byId, byKey, byOverride, byRules) ==
    IF byId # None THEN Returned(byId)
    ELSE IF byKey # None THEN Returned(byKey)
    ELSE IF byOverride # None THEN Returned(byOverride)
    ELSE byRules

CategorizeWithKey(M, O, R, order, household_id, description, merchant_id, key) ==
    FirstOf(MerchantDefaultById(M, merchant_id),
            MerchantDefaultByKey(M, household_id, key),
            OverrideByKey(O, household_id, key),
            RuleLoop(R, order, UpperText(description)))

\* M, O, R: the merchants, merchant_overrides and category_rules tables;
\* order: the order in which the rule query returned its rows
categorize_transaction(M, O, R, order, household_id, description, merchant, merchant_id, merchant_key) ==
    CategorizeWithKey(M, O, R, order, household_id, description, merchant_id,
                      LookupKey(description, merchant, merchant_key))

------------------------------------------------------------------------------
(* The household data the requests work on *)

Households == {1, 2}

\* bank_accounts table: account id -> household id
AccountHousehold == (1 :> 1) @@ (2 :> 2)
Accounts == DOMAIN AccountHousehold

\* categories table: category id -> household id
CategoryHousehold == (5 :> 1) @@ (7 :> 1) @@ (9 :> 2)
Categories == DOMAIN CategoryHousehold

DescNetflix == <<"NETFLIX", ".", "COM">>
DescCoffeeA == <<"Coffee", " ", " ", "Shop">>
DescCoffeeB == <<"coffee", " ", "shop">>
DescPos == <<"POS", " ", "PURCHASE">>
DescGym == <<"THE", " ", "GYM">>

Cand(d, desc, a) ==
    [posted_date |-> d, description |-> desc, amount |-> Cents(a)]

\* the parsed statements that are uploaded: ParseResult.transactions
Statements == {
    <<Cand(1, DescNetflix, -1599), Cand(1, DescCoffeeA, -450),
      Cand(1, DescCoffeeB, -450)>>,
    <<Cand(1, DescCoffeeB, -450), Cand(2, DescPos, -1000)>> }

\* the fingerprints of a statement's candidates
StatementFingerprints(stmt) ==
    {_compute_fingerprint(stmt[i].posted_date, stmt[i].amount,
                          stmt[i].description) : i \in 1..Len(stmt)}

------------------------------------------------------------------------------
(* ingest/service.py: ingest_import, api/imports.py: create_import *)

NewMerchant(household_id, key, display) ==
    [household_id |-> household_id, merchant_key |-> key,
     display_name |-> display, default_category_id |-> None]

\* the merchant that was found, or a new one at the end of the table
FoundOrNew(M, household_id, merchant_key, display, found) ==
    IF found # None THEN [M |-> M, id |-> found]
    ELSE [M |-> Append(M, NewMerchant(household_id, merchant_key, display)),
          id |-> Len(M) + 1]

\* the household's merchant with this key
MerchantByKey(M, household_id, merchant_key) ==
    FirstId({i \in 1..Len(M) : /\ M[i].household_id = household_id
                                /\ M[i].merchant_key = merchant_key})

\* returns the merchants table after the call and the id of the merchant
_get_or_create_merchant(M, household_id, merchant_key) ==
    IF merchant_key = NoText \/ merchant_key = UNKNOWN
    THEN [M |-> M, id |-> None]
    ELSE FoundOrNew(M, household_id, merchant_key, merchant_key,
                    MerchantByKey(M, household_id, merchant_key))

\* a query that filters on the description in place of the fingerprint
existing_ByDescription(T, c, fingerprint) ==
    FirstId({i \in 1..Len(T) : T[i].description = c.description})

\* a query that finds nothing
existing_Nothing(T, c, fingerprint) == None

\* the query for a stored transaction of the candidate's fingerprint.  The
\* unique constraint of Transaction.fingerprint is not modelled: the rows the
\* loop adds pass this query first
existing(T, c, fingerprint) ==
    FirstId({i \in 1..Len(T) : T[i].fingerprint = fingerprint})

\* the row that is added and the state of the loop after it; result: what
\* the categorization gave
Inserted(st, c, ctx, fingerprint, merchant_key, goc, result) ==
    IF result.raised # "None"
    THEN [st EXCEPT !.merchants = goc.M, !.err = result.raised]
    ELSE [st EXCEPT
            !.merchants = goc.M,
            !.txns = Append(@,
                [bank_account_id |-> ctx.bank_account_id,
                 import_id |-> ctx.import_id,
                 posted_date |-> c.posted_date,
                 description |-> c.description,
                 merchant |-> IF goc.id # None
                              THEN goc.M[goc.id].display_name ELSE NoText,
                 merchant_key |-> merchant_key,
                 merchant_id |-> goc.id,
                 amount |-> c.amount,
                 fingerprint |-> fingerprint,
                 category_id |-> result.category_id,
                 is_reviewed |-> FALSE]),
            !.seen = @ \cup {fingerprint},
            !.imported = @ + 1]

\* the merchant's default category if it has one, else categorize_transaction
CategoryFor(c, ctx, merchant_key, goc) ==
    IF goc.id # None /\ goc.M[goc.id].default_category_id # None
    THEN Returned(goc.M[goc.id].default_category_id)
    ELSE categorize_transaction(
             goc.M, ctx.O, ctx.R, ctx.order, ctx.household_id, c.description,
             IF goc.id # None THEN goc.M[goc.id].display_name
             ELSE merchant_key,
             goc.id, merchant_key)

\* goc: what _get_or_create_merchant returned
InsertWithMerchant(st, c, ctx, fingerprint, merchant_key, goc) ==
    Inserted(st, c, ctx, fingerprint, merchant_key, goc,
             CategoryFor(c, ctx, merchant_key, goc))

InsertCandidate(st, c, ctx, fingerprint, merchant_key) ==
    InsertWithMerchant(st, c, ctx, fingerprint, merchant_key,
        _get_or_create_merchant(st.merchants, ctx.household_id, merchant_key))

\* duplicate checks that look only at the rows of the import's household
CheckCandidate_Scoped(st, c, ctx, fingerprint) ==
    IF fingerprint \in st.seen
    THEN [st EXCEPT !.skipped = @ + 1]
    ELSE IF existing(SelectSeq(st.txns,
                LAMBDA t : AccountHousehold[t.bank_account_id]
                           = ctx.household_id), c, fingerprint) # None
    THEN [st EXCEPT !.skipped = @ + 1, !.seen = @ \cup {fingerprint}]
    ELSE InsertCandidate(st, c, ctx, fingerprint,
                         extract_merchant_key(c.description))

\* the duplicate checks: in the batch, then in the database
CheckCandidate(st, c, ctx, fingerprint) ==
    IF fingerprint \in st.seen
    THEN [st EXCEPT !.skipped = @ + 1]
    ELSE IF existing(st.txns, c, fingerprint) # None
    THEN [st EXCEPT !.skipped = @ + 1, !.seen = @ \cup {fingerprint}]
    ELSE InsertCandidate(st, c, ctx, fingerprint,
                         extract_merchant_key(c.description))

\* one pass of the loop over result.transactions, for candidate c.
\* st: the session's view of the tables and the local counters
IngestCandidate(st, c, ctx) ==
    CheckCandidate(st, c, ctx,
        _compute_fingerprint(c.posted_date, c.amount, c.description))

\* the loop, from candidate i on; it ends at the first exception.  faultAt is
\* the candidate at which the database fails (0: it does not fail)
RECURSIVE IngestLoop(_, _, _, _, _)
IngestLoop(st, cands, i, faultAt, ctx) ==
    IF i > Len(cands) \/ st.err # "None" THEN st
    ELSE IF i = faultAt THEN [st EXCEPT !.err = "OperationalError"]
    ELSE IngestLoop(IngestCandidate(st, cands[i], ctx), cands, i + 1,
                    faultAt, ctx)

\* the rule pass of the post-commit sweep: the rows of this import without
\* a category are categorized again
SweepRow(t, M, ctx) ==
    IF t.import_id = ctx.import_id /\ t.category_id = None
    THEN categorize_transaction(M, ctx.O, ctx.R, ctx.order, ctx.household_id,
                                t.description, t.merchant, t.merchant_id,
                                t.merchant_key)
    ELSE Returned(None)

\* what the sweep's categorize call gives for every row
SweepResults(T, M, ctx) == [i \in 1..Len(T) |-> SweepRow(T[i], M, ctx)]

SweepRules(T, results) ==
    [i \in 1..Len(T) |->
        IF results[i].category_id # None
        THEN [T[i] EXCEPT !.category_id = results[i].category_id]
        ELSE T[i]]

SweepUpdated(results) ==
    Cardinality({i \in 1..Len(results) : results[i].category_id # None})

\* the exception of the first row among bad
FirstRaised(results, bad) ==
    IF bad = {} THEN "None"
    ELSE results[CHOOSE i \in bad : \A j \in bad : i <= j].raised

\* an exception of the sweep's categorize calls leaves ingest_import after
\* the commit of the inserted rows
SweepRaised(results) ==
    FirstRaised(results,
                {i \in 1..Len(results) : results[i].raised # "None"})

\* the ML pass of the sweep: categorize/engine.py defines no
\* categorize_transactions_with_ml, the import raises ImportError and the
\* except branch leaves ml_applied = 0
SweepMlApplied == 0

NewImport(account, stmt, imported, skipped, warnings) ==
    [bank_account_id |-> account, stored_path |-> stmt,
     imported_count |-> imported, skipped_count |-> skipped,
     warning_count |-> warnings]

\* the response of POST /imports: the counts ingest_import returned, or the
\* exception that ended it.  fresh: the store held no transaction of the
\* statement when the request began
Run(stmt, fresh, raised, imported, skipped, recategorized, ml_applied) ==
    [stmt |-> stmt, fresh |-> fresh, raised |-> raised,
     imported_count |-> imported, skipped_count |-> skipped,
     recategorized_count |-> recategorized, ml_applied |-> ml_applied]

\* the store holds no transaction of the statement
Fresh(stmt) ==
    \A i \in 1..Len(txns) :
        txns[i].fingerprint \notin StatementFingerprints(stmt)

\* the request ends: the tables as they are persisted, the Import row and
\* the response
EndImport(T, M, import, run) ==
    /\ txns' = T
    /\ merchants' = M
    /\ imports' = Append(imports, import)
    /\ runs' = Append(runs, run)
    /\ used' = [used EXCEPT !.imports = @ + 1]
    /\ UNCHANGED <<rules, overrides, call, models, artifacts, inflight>>

\* the loop ended without exception: the counts are committed, then the
\* sweep runs.  results: what the sweep's categorize calls gave
Swept(account, stmt, st, results) ==
    IF SweepRaised(results) = "None"
    THEN EndImport(SweepRules(st.txns, results), st.merchants,
                   NewImport(account, stmt, st.imported, st.skipped, 0),
                   Run(stmt, Fresh(stmt), "None", st.imported, st.skipped,
                       SweepUpdated(results), SweepMlApplied))
    ELSE EndImport(st.txns, st.merchants,
                   NewImport(account, stmt, st.imported, st.skipped, 1),
                   Run(stmt, Fresh(stmt), SweepRaised(results), 0, 0, 0, 0))

\* st: the state in which the loop of ingest_import ended.
\* An exception of the database leaves the session unusable (the handler's
\* commit fails, the request's work is rolled back); any other exception is
\* caught by the handler, whose commit persists what the session holds.
Ingested(account, stmt, ctx, st) ==
    IF st.err = "None"
    THEN Swept(account, stmt, st, SweepResults(st.txns, st.merchants, ctx))
    ELSE IF st.err = "OperationalError"
    THEN EndImport(txns, merchants, NewImport(account, stmt, 0, 0, 0),
                   Run(stmt, Fresh(stmt), st.err, 0, 0, 0, 0))
    ELSE EndImport(st.txns, st.merchants, NewImport(account, stmt, 0, 0, 1),
                   Run(stmt, Fresh(stmt), st.err, 0, 0, 0, 0))

\* ctx: what the request reads and does not change
ingest_import(account, stmt, faultAt, ctx) ==
    Ingested(account, stmt, ctx,
        IngestLoop([txns |-> txns, merchants |-> merchants, seen |-> {},
                    imported |-> 0, skipped |-> 0, err |-> "None"],
                   stmt, 1, faultAt, ctx))

\* POST /imports: the Import row is committed, then ingest_import runs.
\* order: the order in which the rule queries of this request return the
\* household's rules
CreateImport(account, stmt, faultAt, order) ==
    /\ used.imports < MaxImports
    /\ order \in RuleOrders(rules, AccountHousehold[account])
    /\ ingest_import(account, stmt, faultAt,
           [household_id |-> AccountHousehold[account],
            bank_account_id |-> account, import_id |-> Len(imports) + 1,
            O |-> overrides, R |-> rules, order |-> order])

------------------------------------------------------------------------------
(* api/transactions.py: update_transaction, bulk_update_transactions *)

TxnHousehold(t) == AccountHousehold[t.bank_account_id]

\* the model's count of the update requests that changed the store
Updated(u, changed) == IF changed THEN [u EXCEPT !.updates = @ + 1] ELSE u

\* goc with the key the row gets
WithKey(goc, key) == [M |-> goc.M, id |-> goc.id, key |-> key]

\* the merchant is made without looking for the household's merchant of
\* the key
LinkByKey_NoLookup(M, household_id, t, merchant_key) ==
    IF merchant_key = NoText \/ merchant_key = UNKNOWN
    THEN [M |-> M, id |-> None, key |-> t.merchant_key]
    ELSE WithKey(FoundOrNew(M, household_id, merchant_key, merchant_key,
                            None),
                 merchant_key)

\* merchant_key: the key extracted from the description.  The household's
\* merchant with this key is looked up, and created when there is none
LinkByKey(M, household_id, t, merchant_key) ==
    IF merchant_key = NoText \/ merchant_key = UNKNOWN
    THEN [M |-> M, id |-> None, key |-> t.merchant_key]
    ELSE WithKey(FoundOrNew(M, household_id, merchant_key, merchant_key,
                            MerchantByKey(M, household_id, merchant_key)),
                 merchant_key)

\* the merchant a row without merchant_id is linked to
LinkMerchant(M, household_id, t) ==
    LinkByKey(M, household_id, t, extract_merchant_key(t.description))

\* the row's merchant, after "ensure the transaction has a merchant_id"
LinkOf(M, household_id, t) ==
    IF t.merchant_id = None THEN LinkMerchant(M, household_id, t)
    ELSE [M |-> M, id |-> t.merchant_id, key |-> t.merchant_key]

\* the row is linked and the merchant's default is left as it was
Linked_NoDefault(t, category_id, link) ==
    [M |-> link.M,
     t |-> [t EXCEPT !.merchant_id = link.id, !.merchant_key = link.key]]

\* the row is linked and its merchant gets the category as default
Linked(t, category_id, link) ==
    [M |-> IF link.id # None
           THEN [link.M EXCEPT ![link.id].default_category_id = category_id]
           ELSE link.M,
     t |-> [t EXCEPT !.merchant_id = link.id, !.merchant_key = link.key]]

\* category_id and is_reviewed of the body, where given
SetFields(t, category_id, is_reviewed) ==
    [t EXCEPT !.category_id = IF category_id # None THEN category_id ELSE @,
              !.is_reviewed = IF is_reviewed # "None"
                              THEN is_reviewed = "True" ELSE @]

ApplyToMerchant(M, household_id, t, category_id, to_merchant) ==
    IF to_merchant /\ category_id # None
    THEN Linked(t, category_id, LinkOf(M, household_id, t))
    ELSE [M |-> M, t |-> t]

\* the effect of one update on row t: the new row and the new merchants table
ApplyUpdate(M, household_id, t, category_id, is_reviewed, to_merchant) ==
    ApplyToMerchant(M, household_id, SetFields(t, category_id, is_reviewed),
                    category_id, to_merchant)

\* the request ends with a commit of the two tables
EndUpdate(T, M) ==
    /\ txns' = T
    /\ merchants' = M
    /\ used' = Updated(used, <<T, M>> # <<txns, merchants>>)
    /\ UNCHANGED <<rules, overrides, imports, runs, call, models, artifacts,
                   inflight>>

\* create_merchant_override with a category marks the row reviewed unless
\* the body says otherwise
ReviewedByDefault(t, category_id, is_reviewed, create_merchant_override) ==
    IF create_merchant_override /\ category_id # None /\ is_reviewed = "None"
    THEN [t EXCEPT !.is_reviewed = TRUE] ELSE t

\* r: the effect of the update on the row
UpdateApplied(id, category_id, is_reviewed, create_merchant_override, r) ==
    EndUpdate([txns EXCEPT ![id] = ReviewedByDefault(r.t, category_id,
                                       is_reviewed, create_merchant_override)],
              r.M)

\* PATCH /transactions/{id}
update_transaction(household_id, id, category_id, is_reviewed, create_merchant_override) ==
    /\ used.updates < MaxUpdates
    /\ IF /\ id \in 1..Len(txns)
          /\ TxnHousehold(txns[id]) = household_id
          /\ category_id # None => CategoryHousehold[category_id] = household_id
       THEN UpdateApplied(id, category_id, is_reviewed,
                          create_merchant_override,
                          ApplyUpdate(merchants, household_id, txns[id],
                                      category_id, is_reviewed,
                                      create_merchant_override))
       ELSE EndUpdate(txns, merchants)

\* the loop of bulk_update_transactions over the fetched rows, in id order
RECURSIVE BulkLoop(_, _, _, _, _, _, _)
BulkStep(T, ids, household_id, category_id, is_reviewed, to_merchant, r) ==
    BulkLoop([T EXCEPT ![Head(ids)] = r.t], r.M, Tail(ids), household_id,
             category_id, is_reviewed, to_merchant)

BulkLoop(T, M, ids, household_id, category_id, is_reviewed, to_merchant) ==
    IF ids = <<>> THEN [T |-> T, M |-> M]
    ELSE BulkStep(T, ids, household_id, category_id, is_reviewed, to_merchant,
                  ApplyUpdate(M, household_id, T[Head(ids)], category_id,
                              is_reviewed, to_merchant))

BulkApplied(r) == EndUpdate(r.T, r.M)

\* the rows with these ids that belong to the household, in id order
Fetched(T, transaction_ids, household_id) ==
    SelectSeq([i \in 1..Len(T) |-> i],
              LAMBDA i : /\ i \in transaction_ids
                         /\ TxnHousehold(T[i]) = household_id)

\* POST /transactions/bulk-update
bulk_update_transactions(household_id, transaction_ids, category_id, is_reviewed, apply_to_merchant) ==
    /\ used.updates < MaxUpdates
    /\ IF /\ transaction_ids # {}
          /\ category_id # None => CategoryHousehold[category_id] = household_id
       THEN BulkApplied(
                BulkLoop(txns, merchants,
                         Fetched(txns, transaction_ids, household_id),
                         household_id, category_id, is_reviewed,
                         apply_to_merchant))
       ELSE EndUpdate(txns, merchants)

------------------------------------------------------------------------------
(* api/maintenance.py: backfill_merchants *)

\* BATCH_SIZE is 500 in the source; the model's corpus has a handful of rows
BATCH_SIZE == 2

\* the row is linked to merchant goc.id; known: the id the cache or the
\* query gave, None when the merchant had to be created
BackfillLinked(st, id, txn, computed_key, known, goc) ==
    [st EXCEPT
        !.merchants = goc.M,
        !.created = IF known = None THEN @ + 1 ELSE @,
        !.cache = (computed_key :> goc.id) @@ @,
        !.txns[id] = IF txn.merchant_id # goc.id
                      \/ txn.merchant_key # computed_key
                     THEN [txn EXCEPT !.merchant_key = computed_key,
                                      !.merchant_id = goc.id]
                     ELSE txn,
        !.updated = IF txn.merchant_id # goc.id
                       \/ txn.merchant_key # computed_key
                    THEN @ + 1 ELSE @]

\* get or create the Merchant: known is what the cache or the query gave
BackfillMerchant(st, id, household_id, txn, computed_key, known) ==
    BackfillLinked(st, id, txn, computed_key, known,
        FoundOrNew(st.merchants, household_id, computed_key,
                   extract_display_name(txn.description), known))

\* the merchant id of the key in the cache of this run, else in the table
CachedOrStored(st, household_id, computed_key) ==
    IF computed_key \in DOMAIN st.cache THEN st.cache[computed_key]
    ELSE MerchantByKey(st.merchants, household_id, computed_key)

BackfillKey(st, id, household_id, txn, computed_key) ==
    IF computed_key = UNKNOWN
    THEN [st EXCEPT
            !.txns[id] = [txn EXCEPT !.merchant_key = computed_key,
                                     !.merchant_id = None],
            !.updated = IF txn.merchant_id # None
                           \/ txn.merchant_key # computed_key
                        THEN @ + 1 ELSE @]
    ELSE BackfillMerchant(st, id, household_id, txn, computed_key,
             CachedOrStored(st, household_id, computed_key))

\* one row of a page; st: the tables, the merchant cache and the counters
BackfillRow(st, id, household_id) ==
    BackfillKey(st, id, household_id, st.txns[id],
                extract_merchant_key(st.txns[id].description))

RECURSIVE BackfillPage(_, _, _)
BackfillPage(st, page, household_id) ==
    IF page = <<>> THEN st
    ELSE BackfillPage(BackfillRow(st, Head(page), household_id), Tail(page),
                      household_id)

\* the ids of the rows the query of a page matches
BackfillMatching(T, household_id, force) ==
    SelectSeq([i \in 1..Len(T) |-> i],
              LAMBDA i : /\ TxnHousehold(T[i]) = household_id
                         /\ force \/ T[i].merchant_id = None
                                  \/ T[i].merchant_key = NoText)

\* LIMIT BATCH_SIZE OFFSET offset
PageOf(matching, offset) ==
    SubSeq(matching, offset + 1, Min(offset + BATCH_SIZE, Len(matching)))

\* the while loop: the query is run again for every page, and the page is
\* committed before the next one
RECURSIVE BackfillFrom(_, _, _, _)
BackfillBatch(st, offset, household_id, force, page) ==
    IF page = <<>> THEN st
    ELSE IF Len(page) < BATCH_SIZE THEN BackfillPage(st, page, household_id)
    ELSE BackfillFrom(BackfillPage(st, page, household_id),
                      offset + BATCH_SIZE, household_id, force)

BackfillFrom(st, offset, household_id, force) ==
    BackfillBatch(st, offset, household_id, force,
                  PageOf(BackfillMatching(st.txns, household_id, force),
                         offset))

\* the response carries the two counters
BackfillDone(st, household_id, force) ==
    /\ txns' = st.txns
    /\ merchants' = st.merchants
    /\ call' = [op |-> "backfill_merchants", household_id |-> household_id,
                force |-> force, created_merchants |-> st.created,
                updated_transactions |-> st.updated]
    /\ UNCHANGED <<rules, overrides, imports, runs, used, models, artifacts,
                   inflight>>

\* POST /maintenance/backfill-merchants
backfill_merchants(household_id, force) ==
    BackfillDone(BackfillFrom([txns |-> txns, merchants |-> merchants,
                               cache |-> <<>>, created |-> 0, updated |-> 0],
                              0, household_id, force),
                 household_id, force)

------------------------------------------------------------------------------
(* api/rules.py: create_category_rule, delete_category_rule *)

PatCoffee == <<"COFFEE">>
PatNetflixWord == <<WordBoundary, "NETFLIX", WordBoundary>>
PatUnbalanced == <<"(">>
PatHugeRepeat == <<"a{4294967296}">>

NewRule(household_id, pattern, category_id, priority, enabled) ==
    [household_id |-> household_id, pattern |-> pattern,
     category_id |-> category_id, priority |-> priority, enabled |-> enabled]

\* POST /rules/category-rules
create_category_rule(household_id, pattern, category_id, priority, enabled) ==
    /\ Len(rules) < MaxRules
    /\ IF CategoryHousehold[category_id] = household_id
       THEN rules' = Append(rules, NewRule(household_id, pattern,
                                           category_id, priority, enabled))
       ELSE UNCHANGED rules
    /\ UNCHANGED <<txns, merchants, overrides, imports, runs, used, call, models,
                   artifacts, inflight>>

\* DELETE /rules/category-rules/{rule_id}
delete_category_rule(household_id, rule_id) ==
    /\ rule_id \in 1..Len(rules)
    /\ rules[rule_id].household_id = household_id
    /\ rules' = SubSeq(rules, 1, rule_id - 1)
                 \o SubSeq(rules, rule_id + 1, Len(rules))
    /\ UNCHANGED <<txns, merchants, overrides, imports, runs, used, call, models,
                   artifacts, inflight>>

------------------------------------------------------------------------------
(* The store under sequentially executed requests *)

\* a row imported before the merchant columns existed: what
\* backfill_merchants is for
\* a row stored before merchants were introduced: no merchant_key, no
\* merchant_id
LegacyRow(posted_date) ==
    [bank_account_id |-> 1, import_id |-> 1, posted_date |-> posted_date,
     description |-> DescGym, merchant |-> NoText, merchant_key |-> NoText,
     merchant_id |-> None, amount |-> Cents(-2000),
     fingerprint |-> _compute_fingerprint(posted_date, Cents(-2000), DescGym),
     category_id |-> None, is_reviewed |-> FALSE]

IsLegacy(t) == t.description = DescGym

NoCall == [op |-> "none"]
\* no model has been trained for the household
NoModel == [model_type |-> "none", n_examples |-> 0, categories |-> {}, last_example_count |-> None]
NoModels == [h \in Households |-> NoModel]
\* no model.joblib has been written for the household
NoArtifact == [written |-> "none", model_type |-> "none", n_train |-> 0, categories |-> {}, top |-> None, confidence |-> 0]
NoArtifacts == [h \in Households |-> NoArtifact]
\* no request is in progress
NoRequests == <<>>

Init ==
    /\ \/ txns = <<>> /\ imports = <<>>
       \/ /\ txns = <<LegacyRow(3), LegacyRow(4)>>
          /\ imports = <<NewImport(1, <<>>, 2, 0, 0)>>
    /\ merchants = <<>>
    /\ rules = <<>>
    /\ overrides = <<>>
    /\ runs = <<>>
    /\ used = [imports |-> 0, updates |-> 0]
    /\ call = NoCall
    /\ models = NoModels
    /\ artifacts = NoArtifacts
    /\ inflight = NoRequests

RuleInputs == {
    [household_id |-> 1, pattern |-> PatCoffee, category_id |-> 5,
     priority |-> 5],
    [household_id |-> 1, pattern |-> PatHugeRepeat, category_id |-> 7,
     priority |-> 10],
    [household_id |-> 2, pattern |-> PatCoffee, category_id |-> 5,
     priority |-> 10] }

BodyCategories == {None, 5}
BodyReviewed == {"None", "True"}

Import ==
    \E account \in Accounts, stmt \in Statements :
        \E order \in RuleOrders(rules, AccountHousehold[account]) :
            CreateImport(account, stmt, 0, order)

\* the database fails while candidate faultAt is processed
ImportFault ==
    \E account \in Accounts, stmt \in Statements :
        \E faultAt \in 1..Len(stmt) :
            \E order \in RuleOrders(rules, AccountHousehold[account]) :
                CreateImport(account, stmt, faultAt, order)

Update ==
    \E h \in Households, id \in 1..Len(txns), c \in BodyCategories,
       r \in BodyReviewed, m \in BOOLEAN :
        update_transaction(h, id, c, r, m)

BulkUpdate ==
    \E h \in Households, hi \in 1..Len(txns), c \in BodyCategories,
       r \in BodyReviewed, m \in BOOLEAN :
        bulk_update_transactions(h, 1..hi, c, r, m)

Backfill ==
    \E h \in Households, force \in BOOLEAN : backfill_merchants(h, force)

CreateRule ==
    \E in \in RuleInputs :
        create_category_rule(in.household_id, in.pattern, in.category_id,
                             in.priority, TRUE)

DeleteRule ==
    \E h \in Households, id \in 1..Len(rules) : delete_category_rule(h, id)

Next ==
    \/ Import
    \/ Update
    \/ BulkUpdate
    \/ Backfill

Spec == Init /\ [][Next]_vars

\* imports on their own, with the rules that make categorization raise
NextImport ==
    \/ Import
    \/ ImportFault
    \/ CreateRule
    \/ DeleteRule

SpecImport == Init /\ [][NextImport]_vars

------------------------------------------------------------------------------
(* categorize_transaction on its own, on tables drawn from small sets *)

MaxCatRules == 2

KeyCoffee == <<"COFFEE", " ", "SHOP">>
KeyNetflix == <<"NETFLIX">>

\* the merchants tables: a household merchant with or without a default, the
\* other household's merchant of the same key
CatMerchants ==
    LET m(h, d) == [NewMerchant(h, KeyCoffee, KeyCoffee)
                       EXCEPT !.default_category_id = d]
    IN  {<<>>, <<m(1, 5)>>, <<m(1, None)>>, <<m(2, 9)>>,
         <<m(2, 9), m(1, 5)>>, <<m(1, None), m(2, 9)>>}

\* the merchant_overrides tables
CatOverrides ==
    LET o(h, c) == [household_id |-> h, merchant_key |-> KeyCoffee,
                    category_id |-> c]
    IN  {<<>>, <<o(1, 7)>>, <<o(2, 9)>>}

\* the rules the category_rules tables are made of: equal priorities, a
\* disabled rule, a rule of the other household, two patterns re cannot
\* compile
CatRulePool == {
    NewRule(1, PatCoffee, 5, 5, TRUE), NewRule(1, PatCoffee, 7, 5, TRUE),
    NewRule(1, PatCoffee, 7, 1, FALSE), NewRule(2, PatCoffee, 9, 1, TRUE),
    NewRule(1, PatUnbalanced, 7, 1, TRUE),
    NewRule(1, PatHugeRepeat, 7, 1, TRUE),
    NewRule(1, PatNetflixWord, 7, 20, TRUE) }

InitCat ==
    /\ txns = <<>>
    /\ imports = <<>>
    /\ runs = <<>>
    /\ merchants \in CatMerchants
    /\ overrides \in CatOverrides
    /\ rules \in UNION {[1..k -> CatRulePool] : k \in 0..MaxCatRules}
    /\ used = [imports |-> 0, updates |-> 0]
    /\ call = NoCall
    /\ models = NoModels
    /\ artifacts = NoArtifacts
    /\ inflight = NoRequests

\* one call of categorize_transaction on the tables of the state
Categorize ==
    \E household_id \in Households, description \in {DescCoffeeB, DescNetflix},
       merchant \in {NoText, KeyCoffee}, merchant_id \in 0..Len(merchants),
       merchant_key \in {NoText, KeyCoffee} :
        \E order \in RuleOrders(rules, household_id) :
            /\ call' = [op |-> "categorize_transaction",
                        household_id |-> household_id,
                        description |-> description, merchant |-> merchant,
                        merchant_id |-> merchant_id,
                        merchant_key |-> merchant_key, order |-> order,
                        result |-> categorize_transaction(
                            merchants, overrides, rules, order, household_id,
                            description, merchant, merchant_id, merchant_key)]
            /\ UNCHANGED <<txns, merchants, rules, overrides, imports, runs,
                           used, models, artifacts, inflight>>

SpecCat == InitCat /\ [][Categorize]_vars

------------------------------------------------------------------------------
(* ingest/parsers/bofa.py: BofAParser.parse *)

MaxPages == 3

FailedToParse == "Failed to parse PDF"

\* what _parse_page does with one page: it returns the page's transactions
\* and warnings, or an exception leaves it (extract_words on a damaged page)
PageOutcomes == {
    [raises |-> TRUE, transactions |-> <<>>, warnings |-> <<>>],
    [raises |-> FALSE, transactions |-> <<>>, warnings |-> <<>>],
    [raises |-> FALSE, transactions |-> <<Cand(1, DescNetflix, -1599)>>,
     warnings |-> <<>>],
    [raises |-> FALSE, transactions |-> <<>>,
     warnings |-> <<"Could not parse date">>],
    [raises |-> FALSE, transactions |-> <<Cand(2, DescCoffeeA, -450)>>,
     warnings |-> <<"Could not parse amount">>] }

\* the uploaded files: pdfplumber.open fails, or the pages it yields
Documents ==
    {[opens |-> FALSE, pages |-> <<>>]} \cup
    {[opens |-> TRUE, pages |-> p] :
        p \in UNION {[1..k -> PageOutcomes] : k \in 0..MaxPages}}

\* the loop over pdf.pages inside the try block: the lists grow page by page
\* and the except clause appends its warning to what has been collected
RECURSIVE ParsePages(_, _, _)
ParsePages(pages, transactions, warnings) ==
    IF pages = <<>>
    THEN [transactions |-> transactions, warnings |-> warnings]
    ELSE IF Head(pages).raises
    THEN [transactions |-> transactions,
          warnings |-> Append(warnings, FailedToParse)]
    ELSE ParsePages(Tail(pages), transactions \o Head(pages).transactions,
                    warnings \o Head(pages).warnings)

\* BofAParser.parse(pdf_bytes): the ParseResult
parse(pdf) ==
    IF pdf.opens THEN ParsePages(pdf.pages, <<>>, <<>>)
    ELSE [transactions |-> <<>>, warnings |-> <<FailedToParse>>]

Parse ==
    \E pdf \in Documents :
        /\ call' = [op |-> "parse", pdf |-> pdf, result |-> parse(pdf)]
        /\ UNCHANGED <<txns, merchants, rules, overrides, imports, runs, used,
                       models, artifacts, inflight>>

SpecParse == Init /\ [][Parse]_vars

------------------------------------------------------------------------------
(* ingest/parsers/bofa.py: _parse_date, _parse_amount, _parse_row *)

\* A word of a line is a text: a word lexeme, or the characters of a date
\* or of an amount
Digit == {"0", "1", "2", "3", "4", "5", "6", "7", "8", "9"}

DigitValue(x) ==
    CASE x = "0" -> 0 [] x = "1" -> 1 [] x = "2" -> 2 [] x = "3" -> 3
      [] x = "4" -> 4 [] x = "5" -> 5 [] x = "6" -> 6 [] x = "7" -> 7
      [] x = "8" -> 8 [] OTHER -> 9

\* int() of a run of digits
RECURSIVE NumberOf(_)
NumberOf(w) ==
    IF w = <<>> THEN 0
    ELSE 10 * NumberOf(SubSeq(w, 1, Len(w) - 1)) + DigitValue(w[Len(w)])

IsDigitRun(w, lo, hi) ==
    /\ Len(w) >= lo /\ Len(w) <= hi
    /\ \A i \in 1..Len(w) : w[i] \in Digit

\* str.split("/"): the chunks between the slashes, the empty ones too
RECURSIVE SplitSlash(_, _, _)
SplitSlash(w, cur, acc) ==
    IF w = <<>> THEN Append(acc, cur)
    ELSE IF Head(w) = "/" THEN SplitSlash(Tail(w), <<>>, Append(acc, cur))
    ELSE SplitSlash(Tail(w), Append(cur, Head(w)), acc)

\* ^(\d{1,2}/\d{1,2}(?:/\d{2,4})?)$ on the parts of the word
DatePartsMatch(parts) ==
    /\ Len(parts) \in {2, 3}
    /\ IsDigitRun(parts[1], 1, 2)
    /\ IsDigitRun(parts[2], 1, 2)
    /\ Len(parts) = 3 => IsDigitRun(parts[3], 2, 4)

DATE_PATTERN(word) == DatePartsMatch(SplitSlash(word, <<>>, <<>>))

NoDate == [year |-> 0, month |-> 0, day |-> 0]

\* the year datetime.now() gives when the statement is parsed
ThisYear == 2026

IsLeap(year) ==
    year % 4 = 0 /\ (year % 100 # 0 \/ year % 400 = 0)

DaysIn(year, month) ==
    IF month \in {4, 6, 9, 11} THEN 30
    ELSE IF month = 2 THEN (IF IsLeap(year) THEN 29 ELSE 28)
    ELSE 31

\* strptime: the date, or NoDate where it raises ValueError.  parsed: the
\* year strptime works with, year: the year of the date that is returned
DateOrNone(parsed, year, month, day) ==
    IF /\ parsed >= 1
       /\ month >= 1 /\ month <= 12
       /\ day >= 1 /\ day <= DaysIn(parsed, month)
    THEN [year |-> year, month |-> month, day |-> day]
    ELSE NoDate

\* %y: 69..99 are years of 1900, 0..68 of 2000
TwoDigitYear(y) == IF y >= 69 THEN 1900 + y ELSE 2000 + y

\* the three branches of _parse_date.  Without a year strptime works in
\* 1900 and the year is replaced afterwards
ParseDateParts(parts) ==
    IF Len(parts) = 2
    THEN DateOrNone(1900, ThisYear, NumberOf(parts[1]), NumberOf(parts[2]))
    ELSE IF Len(parts[3]) = 4
    THEN DateOrNone(NumberOf(parts[3]), NumberOf(parts[3]),
                    NumberOf(parts[1]), NumberOf(parts[2]))
    ELSE IF Len(parts[3]) = 2
    THEN DateOrNone(TwoDigitYear(NumberOf(parts[3])),
                    TwoDigitYear(NumberOf(parts[3])),
                    NumberOf(parts[1]), NumberOf(parts[2]))
    ELSE NoDate

\* _parse_date(date_str, warnings): None comes with a warning
_parse_date(date_str) == ParseDateParts(SplitSlash(date_str, <<>>, <<>>))

\* [\d,]+\.\d{2}
IsMoney(w) ==
    /\ Len(w) >= 4
    /\ w[Len(w) - 2] = "."
    /\ w[Len(w) - 1] \in Digit
    /\ w[Len(w)] \in Digit
    /\ \A i \in 1..(Len(w) - 3) : w[i] \in Digit \cup {","}

DropFirst(w, x) == IF w # <<>> /\ Head(w) = x THEN Tail(w) ELSE w

\* ^-?\$?[\d,]+\.\d{2}$|^\([\d,]+\.\d{2}\)$
AMOUNT_PATTERN(word) ==
    \/ IsMoney(DropFirst(DropFirst(word, "-"), "$"))
    \/ /\ Len(word) >= 2
       /\ Head(word) = "(" /\ word[Len(word)] = ")"
       /\ IsMoney(SubSeq(word, 2, Len(word) - 1))

\* replace("$", "").replace(",", "")
Cleaned_amount(amount_str) ==
    SelectSeq(amount_str, LAMBDA x : x \notin {"$", ","})

\* "(x)" becomes "-x"
Unparenthesized(cleaned) ==
    IF /\ cleaned # <<>>
       /\ Head(cleaned) = "(" /\ cleaned[Len(cleaned)] = ")"
    THEN <<"-">> \o SubSeq(cleaned, 2, Len(cleaned) - 1)
    ELSE cleaned

\* Decimal(text) of a text the amount pattern matches: the sign, the digits
\* and two places
DecimalOf(text) ==
    Decimal(IF text # <<>> /\ Head(text) = "-" THEN 1 ELSE 0,
            NumberOf(SelectSeq(text, LAMBDA x : x \in Digit)), 2)

_parse_amount(amount_str) ==
    DecimalOf(Unparenthesized(Cleaned_amount(amount_str)))

\* the index, from 0, of the rightmost word the amount pattern matches,
\* -1 when there is none
AmountIdx(row_words) ==
    IF \E i \in 1..Len(row_words) : AMOUNT_PATTERN(Strip(row_words[i]))
    THEN (CHOOSE i \in 1..Len(row_words) :
              /\ AMOUNT_PATTERN(Strip(row_words[i]))
              /\ \A j \in (i + 1)..Len(row_words) :
                    ~AMOUNT_PATTERN(Strip(row_words[j]))) - 1
    ELSE -1

\* row_words[:amount_idx] if amount_idx else row_words[:-1]
DescriptionWords(row_words, amount_idx) ==
    IF amount_idx # 0 THEN SubSeq(row_words, 1, amount_idx)
    ELSE SubSeq(row_words, 1, Len(row_words) - 1)

\* the amount as it is printed
SectionSign_AsPrinted(amount, section) == amount

\* the sign the section gives: abs() in deposits, negated in withdrawals
\* when the amount is greater than 0
SectionSign(amount, section) ==
    IF section = "deposits" THEN [amount EXCEPT !.sign = 0]
    ELSE IF section = "withdrawals" /\ amount.sign = 0 /\ amount.digits > 0
    THEN [amount EXCEPT !.sign = 1]
    ELSE amount

NoTransaction ==
    [posted_date |-> NoDate, description |-> NoText,
     amount |-> Decimal(0, 0, 2)]

\* what _parse_row gives: the transaction, or a warning, or neither
RowResult(emitted, txn, warning) ==
    [emitted |-> emitted, txn |-> txn, warning |-> warning]

RowWithAmount(posted_date, row_words, section, amount_idx, description) ==
    IF description = NoText
    THEN RowResult(FALSE, NoTransaction, "Empty description")
    ELSE RowResult(TRUE,
             [posted_date |-> posted_date, description |-> description,
              amount |-> SectionSign(
                             _parse_amount(Strip(row_words[amount_idx + 1])),
                             section)],
             "None")

RowAt(posted_date, row_words, section, amount_idx) ==
    IF amount_idx = -1
    THEN RowResult(FALSE, NoTransaction, "Could not find amount")
    ELSE RowWithAmount(posted_date, row_words, section, amount_idx,
             Strip(Join(DescriptionWords(row_words, amount_idx))))

_parse_row(posted_date, row_words, section) ==
    IF row_words = <<>> THEN RowResult(FALSE, NoTransaction, "None")
    ELSE RowAt(posted_date, row_words, section, AmountIdx(row_words))

------------------------------------------------------------------------------
(* ingest/parsers/bofa.py: _parse_page, on the lines of a page *)

DEPOSIT_MARKERS == {
    <<"deposits", " ", "and", " ", "other", " ", "additions">>,
    <<"deposits">> }

WITHDRAWAL_MARKERS == {
    <<"withdrawals", " ", "and", " ", "other", " ", "subtractions">>,
    <<"other", " ", "subtractions">>, <<"withdrawals">>,
    <<"checks", " ", "paid">> }

SECTION_END_MARKERS == {
    <<"total", " ", "deposits">>, <<"total", " ", "withdrawals">>,
    <<"total", " ", "other">>, <<"ending", " ", "balance">>,
    <<"total", " ", "checks">> }

SKIP_KEYWORDS == {
    <<"ending", " ", "balance">>, <<"beginning", " ", "balance">>,
    <<"subtotal">>, <<"continued">>, <<"page">>,
    <<"statement", " ", "period">> }

\* any(marker in line_lower for marker in markers)
AnyIn(markers, line_lower) == \E marker \in markers : Contains(line_lower, marker)

\* " ".join(line_words).strip().lower()
LineLower(line_words) == LowerText(Strip(Join(line_words)))

\* the locals of _parse_page before the first line.  rows: the calls of
\* _parse_row so far, with the line at which each was made
PageStart ==
    [section |-> "None", row |-> <<>>, date |-> NoDate,
     transactions |-> <<>>, warnings |-> <<>>, rows |-> <<>>]

\* the call of _parse_row on the pending row, at line number at: its
\* transaction and its warning are appended to the lists
Finalized(st, at, result) ==
    [st EXCEPT
        !.transactions = IF result.emitted THEN Append(@, result.txn) ELSE @,
        !.warnings = IF result.warning # "None"
                     THEN Append(@, result.warning) ELSE @,
        !.rows = Append(@, [row |-> st.row, date |-> st.date,
                            section |-> st.section, at |-> at,
                            result |-> result])]

Finalize(st, at) ==
    Finalized(st, at, _parse_row(st.date, st.row, st.section))

\* a marker line: the pending row is finalized and dropped when there is a
\* row, a date and a section, and the section becomes new_section
SectionChange(st, at, new_section) ==
    IF st.row # <<>> /\ st.date # NoDate /\ st.section # "None"
    THEN [Finalize(st, at) EXCEPT !.row = <<>>, !.date = NoDate,
                                   !.section = new_section]
    ELSE [st EXCEPT !.section = new_section]

\* a line that begins with a date: the pending row is finalized and the
\* new row begins with the words after the date
DateLed(st, line_words, posted_date) ==
    [st EXCEPT
        !.date = posted_date,
        !.row = Tail(line_words),
        !.warnings = IF posted_date = NoDate
                     THEN Append(@, "Could not parse date") ELSE @]

DateLine(st, at, line_words) ==
    DateLed(IF st.row # <<>> /\ st.date # NoDate THEN Finalize(st, at)
            ELSE st,
            line_words, _parse_date(Head(line_words)))

\* one pass of the loop over the lines
ParseLine(st, at, line_words, line_lower) ==
    IF AnyIn(DEPOSIT_MARKERS, line_lower)
    THEN SectionChange(st, at, "deposits")
    ELSE IF AnyIn(WITHDRAWAL_MARKERS, line_lower)
    THEN SectionChange(st, at, "withdrawals")
    ELSE IF AnyIn(SECTION_END_MARKERS, line_lower)
    THEN SectionChange(st, at, "None")
    ELSE IF st.section = "None" THEN st
    ELSE IF AnyIn(SKIP_KEYWORDS, line_lower) THEN st
    ELSE IF DATE_PATTERN(Head(line_words))
    THEN DateLine(st, at, line_words)
    ELSE [st EXCEPT !.row = @ \o line_words]

RECURSIVE ParseLines(_, _, _)
ParseLines(st, lines, at) ==
    IF at > Len(lines) THEN st
    ELSE ParseLines(ParseLine(st, at, lines[at], LineLower(lines[at])),
                    lines, at + 1)

\* after the last line the pending row is finalized
LastRow(st, at) ==
    IF st.row # <<>> /\ st.date # NoDate THEN Finalize(st, at) ELSE st

\* _parse_page on the lines _group_into_lines gives
_parse_page(lines) == LastRow(ParseLines(PageStart, lines, 1), Len(lines) + 1)

\* the lines of the pages that are parsed
MaxLines == 3

Word(x) == <<x>>
Amount450 == <<"4", ".", "5", "0">>

PageLines == {
    <<Word("Deposits"), Word("and"), Word("other"), Word("additions")>>,
    <<Word("Withdrawals"), Word("and"), Word("other"),
      Word("subtractions")>>,
    <<Word("Total"), Word("deposits"), Word("and"), Word("other"),
      Word("additions"), <<"$", "1", ",", "5", "0", "0", ".", "0", "0">>>>,
    <<Word("Ending"), Word("balance"), Amount450>>,
    <<<<"1", "/", "2">>, Word("COFFEE"), Word("SHOP"), Amount450>>,
    <<<<"0", "1", "/", "0", "3", "/", "2", "4">>, Word("NETFLIX"),
      <<"-", "1", "5", ".", "9", "9">>>>,
    <<<<"1", "/", "4">>, Word("GYM"), <<"(", "2", "0", ".", "0", "0", ")">>>>,
    <<Word("SHOP")>>,
    <<<<"1", "/", "5">>, <<"1", "2", ".", "0", "0">>, Word("COFFEE")>>,
    <<<<"1", "/", "6">>, Word("COFFEE")>>,
    <<<<"1", "/", "7">>, Amount450>>,
    <<<<"1", "3", "/", "4", "5">>, Word("GYM"), Amount450>> }

Pages == UNION {[1..n -> PageLines] : n \in 0..MaxLines}

\* a page waits to be parsed
InitPage ==
    /\ txns = <<>>
    /\ imports = <<>>
    /\ merchants = <<>>
    /\ rules = <<>>
    /\ overrides = <<>>
    /\ runs = <<>>
    /\ used = [imports |-> 0, updates |-> 0]
    /\ \E lines \in Pages : call = [op |-> "page", lines |-> lines]
    /\ models = NoModels
    /\ artifacts = NoArtifacts
    /\ inflight = NoRequests

ParsePage ==
    /\ call.op = "page"
    /\ call' = [op |-> "_parse_page", lines |-> call.lines,
                result |-> _parse_page(call.lines)]
    /\ UNCHANGED <<txns, merchants, rules, overrides, imports, runs, used,
                   models, artifacts, inflight>>

SpecPage == InitPage /\ [][ParsePage]_vars

------------------------------------------------------------------------------
(* _compute_fingerprint on its own, on inputs drawn from small sets *)

\* 0.00, -0.00, -4.50 and -4.5
FingerprintAmounts ==
    {Decimal(0, 0, 2), Decimal(1, 0, 2), Decimal(1, 450, 2),
     Decimal(1, 45, 1)}

FingerprintDescriptions ==
    {DescCoffeeA, DescCoffeeB, <<" ", "COFFEE", " ", "SHOP", " ">>,
     DescNetflix}

FingerprintInputs ==
    {[posted_date |-> d, amount |-> a, description |-> t] :
        d \in {1, 2}, a \in FingerprintAmounts,
        t \in FingerprintDescriptions}

\* two calls of _compute_fingerprint
Fingerprint ==
    \E a \in FingerprintInputs, b \in FingerprintInputs :
        /\ call' = [op |-> "_compute_fingerprint", a |-> a, b |-> b,
                    fa |-> _compute_fingerprint(a.posted_date, a.amount,
                                                a.description),
                    fb |-> _compute_fingerprint(b.posted_date, b.amount,
                                                b.description)]
        /\ UNCHANGED <<txns, merchants, rules, overrides, imports, runs, used,
                       models, artifacts, inflight>>

SpecFingerprint == Init /\ [][Fingerprint]_vars

------------------------------------------------------------------------------
(* api/learning.py: rule mining *)

MaxSame == 9
MIN_SUPPORT == 5

STOPWORDS == {
    "THE", "AND", "FOR", "FROM", "WITH", "POS", "PURCHASE", "DEBIT", "CREDIT",
    "CARD", "ONLINE", "PAYMENT", "TRANSFER", "TRANSACTION", "ACH",
    "WITHDRAWAL", "DEPOSIT", "CHECK", "WIRE", "MOBILE", "RECURRING",
    "AUTHORIZED", "REF", "CONF", "TXN", "INC", "LLC", "CORP", "LTD" }

\* the filter of _tokenize on the chunks of re.split(r"[^A-Za-z0-9]+", ...):
\* a chunk is one word lexeme
FilterTokens(chunks) ==
    SelectSeq([i \in 1..Len(chunks) |-> chunks[i][1]],
              LAMBDA token : /\ WordLen(token) >= 3
                             /\ token \notin STOPWORDS
                             /\ ~IsDigits(token))

_tokenize(text) == FilterTokens(Split(UpperText(text), NonAlnum))

\* " ".join(text_parts): the description, and the merchant_key if there is one
combined_text(txn) ==
    IF txn.merchant_key # NoText
    THEN Join(<<txn.description, txn.merchant_key>>) ELSE txn.description

\* how often one transaction counts for a token: the loop runs over
\* set(tokens), so once if the token occurs in it
Occurrences_PerOccurrence(tokens, token) ==
    Cardinality({i \in 1..Len(tokens) : tokens[i] = token})

Occurrences(tokens, token) ==
    IF \E i \in 1..Len(tokens) : tokens[i] = token THEN 1 ELSE 0

\* the tokens of each transaction of the loop, with its category
Tokenized(transactions) ==
    [i \in 1..Len(transactions) |->
        [category_id |-> transactions[i].category_id,
         tokens |-> _tokenize(combined_text(transactions[i]))]]

\* token_category_counts[token][c] summed over the categories c of cats,
\* after the loop over the transactions
RECURSIVE CountTokens(_, _, _)
CountTokens(transactions, token, cats) ==
    IF transactions = <<>> THEN 0
    ELSE (IF Head(transactions).category_id \in cats
          THEN Occurrences(Head(transactions).tokens, token)
          ELSE 0) + CountTokens(Tail(transactions), token, cats)

\* the keys of token_total_counts
SeenTokens(transactions) ==
    UNION {{transactions[i].tokens[k] : k \in 1..Len(transactions[i].tokens)} :
           i \in 1..Len(transactions)}

\* max(category_counts, key=category_counts.get).  Equal counts are decided
\* by the insertion order of the dict, but then the share is at most 1/2 and
\* the token is no candidate
BestCategory(transactions, token) ==
    CHOOSE c \in Categories :
        \A d \in Categories : CountTokens(transactions, token, {d})
                                <= CountTokens(transactions, token, {c})

\* best_count / total_count >= 0.90, the quotient being the double nearest
\* to the fraction
PrecisionOk(best_count, total_count) == 10 * best_count >= 9 * total_count

\* the candidates list before it is sorted; precision is
\* best_count / support
Candidates(transactions) ==
    {[token |-> token,
      category_id |-> BestCategory(transactions, token),
      best_count |-> CountTokens(transactions, token,
                                 {BestCategory(transactions, token)}),
      support |-> CountTokens(transactions, token, Categories)] :
        token \in {t \in SeenTokens(transactions) :
            /\ CountTokens(transactions, t, Categories) >= MIN_SUPPORT
            /\ PrecisionOk(CountTokens(transactions, t,
                                       {BestCategory(transactions, t)}),
                           CountTokens(transactions, t, Categories))}}

\* candidates.sort(key=(-precision, -support)): a comes no later than b
SortsBefore(a, b) ==
    \/ a.best_count * b.support > b.best_count * a.support
    \/ /\ a.best_count * b.support = b.best_count * a.support
       /\ a.support >= b.support

\* the orders the sorted list may have.  The sort is stable and the list is
\* built in the iteration order of a dict filled from sets of strings, which
\* changes with the hash seed of the process: equal keys come in any order
CandidateOrders(cands) ==
    {o \in [1..Cardinality(cands) -> cands] :
        /\ \A a, b \in 1..Cardinality(cands) : a # b => o[a] # o[b]
        /\ \A a, b \in 1..Cardinality(cands) :
               a < b => SortsBefore(o[a], o[b])}

\* int((1.0 - precision) * 400), where precision is the double nearest to
\* best_count / total_count.  1.0 - 0.9 is 0.09999999999999998 as a double,
\* so a precision of 0.9 gives 39; in the same way 0.92 gives 31 and 0.925
\* gives 29; no other fraction with a denominator below 70 is within one
\* rounding error of an integer
PrecisionScore(best_count, total_count) ==
    IF 10 * best_count = 9 * total_count THEN 39
    ELSE IF 25 * best_count = 23 * total_count THEN 31
    ELSE IF 40 * best_count = 37 * total_count THEN 29
    ELSE (400 * (total_count - best_count)) \div total_count

Max(a, b) == IF a > b THEN a ELSE b

\* a priority that grows with the support
PriorityOf_SupportRaises(num, den, support) ==
    Min(Max(10 + PrecisionScore(num, den) + Min(support, 50) \div 2, 10), 100)

\* _compute_priority(precision, support) for the precision num / den
PriorityOf(num, den, support) ==
    Min(Max(10 + PrecisionScore(num, den)
               + Max(0, 50 - Min(support, 50)) \div 2, 10), 100)

\* the call of generate_rules: precision is best_count / support
_compute_priority(best_count, support) ==
    PriorityOf(best_count, support, support)

\* r"\b" + re.escape(token) + r"\b"
WordPattern(token) == <<WordBoundary>> \o Escape(<<token>>) \o <<WordBoundary>>

\* a lookup that never finds the rule
existing_rule_None(R, household_id, pattern) == None

\* the household's rule with this pattern
existing_rule(R, household_id, pattern) ==
    FirstId({i \in 1..Len(R) : /\ R[i].household_id = household_id
                               /\ R[i].pattern = pattern})

\* the upsert loop over the sorted candidates.  st: the rules table of the
\* session and the two counters
RECURSIVE UpsertRules(_, _, _)
\* an upsert that leaves a rule it finds as enabled or disabled as it was
UpsertRule_KeepEnabled(st, household_id, order, found, rule) ==
    IF found # None
    THEN UpsertRules([st EXCEPT !.R[found].category_id = rule.category_id,
                                !.R[found].priority = rule.priority,
                                !.updated = @ + 1],
                     household_id, Tail(order))
    ELSE UpsertRules([st EXCEPT !.R = Append(@, rule), !.created = @ + 1],
                     household_id, Tail(order))

UpsertRule(st, household_id, order, found, rule) ==
    IF found # None
    THEN UpsertRules([st EXCEPT !.R[found].category_id = rule.category_id,
                                !.R[found].priority = rule.priority,
                                !.R[found].enabled = TRUE,
                                !.updated = @ + 1],
                     household_id, Tail(order))
    ELSE UpsertRules([st EXCEPT !.R = Append(@, rule), !.created = @ + 1],
                     household_id, Tail(order))

UpsertRules(st, household_id, order) ==
    IF order = <<>> THEN st
    ELSE UpsertRule(st, household_id, order,
             existing_rule(st.R, household_id, WordPattern(Head(order).token)),
             NewRule(household_id, WordPattern(Head(order).token),
                     Head(order).category_id,
                     _compute_priority(Head(order).best_count,
                                       Head(order).support),
                     TRUE))

\* the query of generate_rules: the household's reviewed transactions that
\* have a category
ReviewedOf(T, household_id) ==
    SelectSeq(T, LAMBDA t : /\ TxnHousehold(t) = household_id
                            /\ t.is_reviewed
                            /\ t.category_id # None)

\* the rules table is committed and the response returned; again: the
\* request before this one was the same household's generate_rules
Mined(household_id, st, candidates) ==
    /\ rules' = st.R
    /\ call' = [op |-> "generate_rules", household_id |-> household_id,
                before |-> rules,
                again |-> /\ call.op = "generate_rules"
                          /\ call.household_id = household_id,
                response |-> [created |-> st.created, updated |-> st.updated,
                              candidates |-> candidates]]
    /\ UNCHANGED <<txns, merchants, overrides, imports, runs, used, models,
                   artifacts, inflight>>

\* POST /learning/generate-rules.  Without reviewed transactions there are
\* no candidates and the response is (0, 0, 0)
generate_rules(household_id, order) ==
    Mined(household_id,
          UpsertRules([R |-> rules, created |-> 0, updated |-> 0],
                      household_id, order),
          Len(order))

------------------------------------------------------------------------------
(* api/learning.py: _compute_priority on its own *)

MaxSupport == 52

\* the precisions of candidates: the fractions num / den of 0.90 or more
Precisions ==
    {p \in (1..MaxSupport) \X (1..MaxSupport) :
        p[1] <= p[2] /\ 10 * p[1] >= 9 * p[2]}

\* the supports of candidates
Supports == MIN_SUPPORT..MaxSupport

InitPriority ==
    /\ txns = <<>>
    /\ imports = <<>>
    /\ merchants = <<>>
    /\ rules = <<>>
    /\ overrides = <<>>
    /\ runs = <<>>
    /\ used = [imports |-> 0, updates |-> 0]
    /\ \E p \in Precisions, support \in Supports :
          call = [op |-> "candidate", num |-> p[1], den |-> p[2],
                  support |-> support]
    /\ models = NoModels
    /\ artifacts = NoArtifacts
    /\ inflight = NoRequests

ComputePriority ==
    /\ call.op = "candidate"
    /\ call' = [op |-> "_compute_priority", num |-> call.num,
                den |-> call.den, support |-> call.support,
                priority |-> PriorityOf(call.num, call.den, call.support)]
    /\ UNCHANGED <<txns, merchants, rules, overrides, imports, runs, used,
                   models, artifacts, inflight>>

SpecPriority == InitPriority /\ [][ComputePriority]_vars

------------------------------------------------------------------------------
(* ml/routes.py, api/ml.py, ml/trainer.py: training *)

MIN_EXAMPLES == 50
MIN_COUNT == 5

HTTP_400 == "HTTPException 400"

\* predict_proba of a fitted pipeline is not computed: a fitted pipeline
\* answers one of the categories it was fitted on (top), with one of these
\* confidences, in percent
Confidences == {50, 90}

\* the pipelines a fit on n_train examples of these categories can give,
\* as joblib.dump writes them
Fits(model_type, n_train, categories) ==
    {[written |-> "complete", model_type |-> model_type, n_train |-> n_train,
      categories |-> categories, top |-> t, confidence |-> c] :
        t \in categories, c \in Confidences}

\* ml/trainer.py get_training_examples: the join is written on
\* Transaction.account_id; the model has bank_account_id and no such
\* attribute, so AttributeError leaves the function before a row is read
trainer_get_training_examples(T, household_id) ==
    [raised |-> "AttributeError", examples |-> <<>>]

Labels(examples) == {examples[i].category_id : i \in 1..Len(examples)}

\* what POST /ml/train of ml/routes.py answers: the exception, or "saved"
TrainOutcome(got) ==
    IF got.raised # "None" THEN got.raised
    ELSE IF Len(got.examples) < MIN_EXAMPLES THEN HTTP_400
    ELSE IF Cardinality(Labels(got.examples)) < 2 THEN HTTP_400
    ELSE "saved"

\* the pipeline is fitted on the training part of the split; the metadata
\* of this handler has no model_type key
TrainSaved(household_id, got, outcome) ==
    /\ models' = IF outcome = "saved"
                 THEN [models EXCEPT ![household_id] =
                          [model_type |-> "None",
                           n_examples |-> Len(got.examples),
                           categories |-> Labels(got.examples),
                           last_example_count |-> None]]
                 ELSE models
    /\ IF outcome = "saved"
       THEN \E fit \in Fits("logreg",
                    Len(got.examples) - ((Len(got.examples) + 4) \div 5),
                    Labels(got.examples)) :
                artifacts' = [artifacts EXCEPT ![household_id] = fit]
       ELSE UNCHANGED artifacts
    /\ call' = [op |-> "train_ml", household_id |-> household_id,
                before |-> models, outcome |-> outcome]
    /\ UNCHANGED <<txns, merchants, rules, overrides, imports, runs, used,
                   inflight>>

\* ml/routes.py: the handler main.py registers for POST /ml/train
train_ml(household_id) ==
    TrainSaved(household_id,
               trainer_get_training_examples(txns, household_id),
               TrainOutcome(trainer_get_training_examples(txns, household_id)))

\* the rows of the household that have a category
Labelled(T, household_id) ==
    SelectSeq(T, LAMBDA t : /\ t.category_id # None
                            /\ TxnHousehold(t) = household_id)

\* the filter on rare categories
FrequentOnly(examples, min_count) ==
    SelectSeq(examples,
              LAMBDA e : Cardinality({i \in 1..Len(examples) :
                             examples[i].category_id = e.category_id})
                         >= min_count)

\* ingest/service.py get_training_examples.  No category of the model is
\* named Income, so exclude_income removes nothing
get_training_examples(T, household_id, min_count) ==
    FrequentOnly(Labelled(T, household_id), min_count)

\* train_test_split(test_size=0.2): the test part has ceil(0.2 * n) of the n
\* examples.  Every category has min_count = 5 examples or more, so the
\* stratified split succeeds and leaves each category in the training part
TrainPart(examples) ==
    [n_examples |-> Len(examples) - ((Len(examples) + 4) \div 5),
     categories |-> Labels(examples)]

\* ml/trainer.py train_classifier: LinearSVC is not imported, so model_type
\* "svm" raises NameError; LogisticRegression.fit raises ValueError on
\* fewer than two classes; the artifact and the metadata are written after
\* the fit
train_classifier(household_id, part, model_type) ==
    IF part.n_examples = 0 THEN "ValueError"
    ELSE IF model_type = "svm" THEN "NameError"
    ELSE IF Cardinality(part.categories) < 2 THEN "ValueError"
    ELSE "saved"

\* train_classifier's metadata has no last_example_count key
TrainModelSaved(household_id, examples, model_type, outcome) ==
    /\ models' = IF outcome = "saved"
                 THEN [models EXCEPT ![household_id] =
                          [model_type |-> model_type,
                           n_examples |-> TrainPart(examples).n_examples,
                           categories |-> TrainPart(examples).categories,
                           last_example_count |-> None]]
                 ELSE models
    /\ IF outcome = "saved"
       THEN \E fit \in Fits(model_type, TrainPart(examples).n_examples,
                             TrainPart(examples).categories) :
                artifacts' = [artifacts EXCEPT ![household_id] = fit]
       ELSE UNCHANGED artifacts
    /\ call' = [op |-> "train_ml_model", household_id |-> household_id,
                before |-> models, outcome |-> outcome]
    /\ UNCHANGED <<txns, merchants, rules, overrides, imports, runs, used,
                   inflight>>

\* api/ml.py: POST /ml/train with the request's min_count left at its default
train_ml_model(household_id, model_type) ==
    TrainModelSaved(household_id,
        get_training_examples(txns, household_id, MIN_COUNT), model_type,
        IF get_training_examples(txns, household_id, MIN_COUNT) = <<>>
        THEN HTTP_400
        ELSE train_classifier(household_id,
                 TrainPart(get_training_examples(txns, household_id,
                                                 MIN_COUNT)),
                 model_type))

------------------------------------------------------------------------------
(* api/ml.py: retrain_if_needed; ml/routes.py, api/ml.py: predict_ml *)

\* a recorded count that is never read
LastCount_Zero(meta) == 0

\* a loader that finds a pipeline whatever the file is
load_model_Always(artifact) == "None"

\* last_example_count or 0
LastCount(meta) ==
    IF meta.last_example_count = None THEN 0 ELSE meta.last_example_count

\* what retrain_if_needed answers without retraining: the metadata it read
NotRetrained(meta, n_new) ==
    [retrained |-> FALSE, n_new_examples |-> n_new,
     last_example_count |-> meta.last_example_count,
     model_type |-> meta.model_type, saved |-> meta.model_type # "none"]

\* the call as the claims look at it.  trained: the request before this
\* one was a training of the same household that persisted its model
RetrainCall(household_id, min_new_examples, examples, outcome, response) ==
    [op |-> "retrain_if_needed", household_id |-> household_id,
     min_new_examples |-> min_new_examples,
     n_examples |-> Len(examples), categories |-> Labels(examples),
     before |-> models,
     artifact |-> artifacts[household_id],
     trained |-> /\ call.op \in {"train_ml", "train_ml_model",
                                 "retrain_if_needed"}
                 /\ call.household_id = household_id
                 /\ call.outcome = "saved",
     outcome |-> outcome, response |-> response]

\* the retrain branch: train_classifier on all the examples with its
\* default model_type; it writes model.joblib and metadata.json, then the
\* handler writes the metadata again with last_example_count.  An exception
\* of train_classifier leaves the handler without a response
Retrained(household_id, min_new_examples, examples, n_new, outcome) ==
    IF outcome = "saved"
    THEN /\ \E fit \in Fits("logreg", Len(examples), Labels(examples)) :
               artifacts' = [artifacts EXCEPT ![household_id] = fit]
         /\ models' = [models EXCEPT ![household_id] =
                          [model_type |-> "logreg",
                           n_examples |-> Len(examples),
                           categories |-> Labels(examples),
                           last_example_count |-> Len(examples)]]
         /\ call' = RetrainCall(household_id, min_new_examples, examples,
                        outcome,
                        [retrained |-> TRUE, n_new_examples |-> n_new,
                         last_example_count |-> Len(examples),
                         model_type |-> "logreg", saved |-> TRUE])
    ELSE /\ call' = RetrainCall(household_id, min_new_examples, examples,
                        outcome,
                        IF outcome = "not retrained"
                        THEN NotRetrained(models[household_id], n_new)
                        ELSE [raised |-> outcome])
         /\ UNCHANGED <<models, artifacts>>

RetrainWith(household_id, min_new_examples, examples, n_new) ==
    /\ Retrained(household_id, min_new_examples, examples, n_new,
           IF n_new >= min_new_examples
           THEN train_classifier(household_id,
                    [n_examples |-> Len(examples),
                     categories |-> Labels(examples)], "logreg")
           ELSE "not retrained")
    /\ UNCHANGED <<txns, merchants, rules, overrides, imports, runs, used,
                   inflight>>

\* POST /ml/retrain-if-needed with the request's min_count left at its
\* default
retrain_if_needed(household_id, min_new_examples) ==
    RetrainWith(household_id, min_new_examples,
        get_training_examples(txns, household_id, MIN_COUNT),
        Len(get_training_examples(txns, household_id, MIN_COUNT))
            - LastCount(models[household_id]))

\* ml/service.py load_model (joblib.load opens the path) and
\* ml/predictor.py load_model (os.path.exists, then load): both raise
\* FileNotFoundError when there is no file; a file that is being written
\* does not unpickle
load_model(artifact) ==
    IF artifact.written = "none" THEN "FileNotFoundError"
    ELSE IF artifact.written = "partial" THEN "EOFError"
    ELSE "None"

\* what predict_ml answers on the file it finds
Predicted(artifact, loaded) ==
    IF loaded = "FileNotFoundError" THEN [status |-> 404]
    ELSE IF loaded # "None" THEN [status |-> 500]
    ELSE [status |-> 200, category_id |-> artifact.top,
          confidence |-> artifact.confidence]

\* POST /ml/predict, of ml/routes.py and of api/ml.py: the pipelines that
\* are persisted have predict_proba
predict_ml(household_id) ==
    /\ call' = [op |-> "predict_ml", household_id |-> household_id,
                artifact |-> artifacts[household_id],
                response |-> Predicted(artifacts[household_id],
                                load_model(artifacts[household_id]))]
    /\ UNCHANGED <<txns, merchants, rules, overrides, imports, runs, used,
                   models, artifacts, inflight>>

------------------------------------------------------------------------------
(* Rule mining and training on a reviewed corpus *)

\* a stored transaction of a merchant the import has created
StoredRow(account, posted_date, description, key, merchant_id, category_id, is_reviewed) ==
    [bank_account_id |-> account, import_id |-> 1,
     posted_date |-> posted_date, description |-> description,
     merchant |-> key, merchant_key |-> key, merchant_id |-> merchant_id,
     amount |-> Cents(-1599),
     fingerprint |-> _compute_fingerprint(posted_date, Cents(-1599),
                                          description),
     category_id |-> category_id, is_reviewed |-> is_reviewed]

\* n transactions of one kind, on the dates after first
RowsOf(n, first, description, key, merchant_id, category_id) ==
    [i \in 1..n |-> StoredRow(1, first + i, description, key, merchant_id,
                              category_id, TRUE)]

\* rows the mining query does not select
Unselected ==
    <<StoredRow(1, 41, DescNetflix, KeyNetflix, 1, 7, FALSE),
      StoredRow(1, 42, DescNetflix, KeyNetflix, 1, None, TRUE),
      StoredRow(2, 43, DescNetflix, KeyNetflix, 3, 9, TRUE)>>

\* the old model of household 1
OldModel == [model_type |-> "logreg", n_examples |-> 40, categories |-> {5, 7}, last_example_count |-> None]
\* the pipeline it was written with
OldArtifact == [written |-> "complete", model_type |-> "logreg", n_train |-> 40, categories |-> {5, 7}, top |-> 5, confidence |-> 90]

InitLearn ==
    /\ \E a \in 0..MaxSame, b \in 0..1, c \in {0, 5}, u \in BOOLEAN :
          txns = RowsOf(a, 0, DescNetflix, KeyNetflix, 1, 7)
                 \o RowsOf(b, 20, DescNetflix, KeyNetflix, 1, 5)
                 \o RowsOf(c, 30, DescCoffeeB, KeyCoffee, 2, 5)
                 \o (IF u THEN Unselected ELSE <<>>)
    /\ imports = <<NewImport(1, <<>>, Len(txns), 0, 0)>>
    /\ merchants = <<NewMerchant(1, KeyNetflix, KeyNetflix),
                     NewMerchant(1, KeyCoffee, KeyCoffee),
                     NewMerchant(2, KeyNetflix, KeyNetflix)>>
    /\ rules \in {<<>>, <<NewRule(1, PatNetflixWord, 5, 100, FALSE)>>}
    /\ overrides = <<>>
    /\ runs = <<>>
    /\ used = [imports |-> 0, updates |-> 0]
    /\ call = NoCall
    /\ models \in {NoModels, [NoModels EXCEPT ![1] = OldModel]}
    /\ artifacts = [h \in Households |->
                       IF models[h] = NoModel THEN NoArtifact ELSE OldArtifact]
    /\ inflight = NoRequests

GenerateRules ==
    \E household_id \in Households :
        \E order \in CandidateOrders(
                Candidates(Tokenized(ReviewedOf(txns, household_id)))) :
            generate_rules(household_id, order)

SpecLearn == InitLearn /\ [][GenerateRules]_vars

\* a reviewed corpus whose merchant keys come from the brand table: the
\* key of AMZN MKTP is AMAZON
DescAmazon == <<"AMZN", " ", "MKTP">>
KeyAmazon == extract_merchant_key(DescAmazon)

InitMined ==
    /\ \E a \in 0..MaxSame, b \in 0..1, c \in {0, 5}, u \in BOOLEAN :
          txns = RowsOf(a, 0, DescAmazon, KeyAmazon, 1, 7)
                 \o RowsOf(b, 20, DescAmazon, KeyAmazon, 1, 5)
                 \o RowsOf(c, 30, DescCoffeeB, KeyCoffee, 2, 5)
                 \o (IF u THEN Unselected ELSE <<>>)
    /\ imports = <<NewImport(1, <<>>, Len(txns), 0, 0)>>
    /\ merchants = <<NewMerchant(1, KeyAmazon, KeyAmazon),
                     NewMerchant(1, KeyCoffee, KeyCoffee),
                     NewMerchant(2, KeyNetflix, KeyNetflix)>>
    /\ rules \in {<<>>, <<NewRule(1, WordPattern("AMAZON"), 5, 100, FALSE)>>}
    /\ overrides = <<>>
    /\ runs = <<>>
    /\ used = [imports |-> 0, updates |-> 0]
    /\ call = NoCall
    /\ models = NoModels
    /\ artifacts = NoArtifacts
    /\ inflight = NoRequests

SpecMined == InitMined /\ [][GenerateRules]_vars

Train == \E household_id \in Households : train_ml(household_id)

TrainModel ==
    \E household_id \in Households, model_type \in {"svm", "logreg"} :
        train_ml_model(household_id, model_type)

NextTrain ==
    \/ Train
    \/ TrainModel

SpecTrain == InitLearn /\ [][NextTrain]_vars

\* min_confidence of the import's ML pass, in percent
ML_MIN_CONFIDENCE == 75

\* imports of a household that has a trained model: household 1 has the
\* old model, whose pipeline is confident or not
InitScored ==
    /\ \/ txns = <<>> /\ imports = <<>>
       \/ /\ txns = <<LegacyRow(3), LegacyRow(4)>>
          /\ imports = <<NewImport(1, <<>>, 2, 0, 0)>>
    /\ merchants = <<>>
    /\ rules = <<>>
    /\ overrides = <<>>
    /\ runs = <<>>
    /\ used = [imports |-> 0, updates |-> 0]
    /\ call = NoCall
    /\ models = [NoModels EXCEPT ![1] = OldModel]
    /\ \E c \in Confidences :
          artifacts = [NoArtifacts EXCEPT
                          ![1] = [OldArtifact EXCEPT !.confidence = c]]
    /\ inflight = NoRequests

SpecScored == InitScored /\ [][NextImport]_vars

------------------------------------------------------------------------------
(* api/maintenance.py: recategorize_transactions *)

\* the ids of the rows the query of a page matches: uncategorized or
\* unreviewed rows of the household's accounts.  The query has no ORDER
\* BY; the rows are taken in id order
RecategorizeMatching(T, household_id) ==
    SelectSeq([i \in 1..Len(T) |-> i],
              LAMBDA i : /\ TxnHousehold(T[i]) = household_id
                         /\ T[i].category_id = None \/ ~T[i].is_reviewed)

\* step 2 of a row: the model's prediction for a row still uncategorized,
\* taken when its confidence reaches the threshold
RecategorizeMl(st, id, txn, ml_model) ==
    IF /\ txn.category_id = None
       /\ ml_model.written = "complete"
       /\ ml_model.confidence >= ML_MIN_CONFIDENCE
    THEN [st EXCEPT !.txns[id].category_id = ml_model.top,
                    !.ml_applied = @ + 1, !.updated = @ + 1,
                    !.evaluated = @ \cup {id}]
    ELSE [st EXCEPT !.evaluated = @ \cup {id}]

\* step 1 of a row: new: what categorize_transaction gave for it
RecategorizeRule(st, id, txn, new, ml_model) ==
    IF new.raised # "None" THEN [st EXCEPT !.err = new.raised]
    ELSE IF new.category_id # None /\ new.category_id # txn.category_id
    THEN [st EXCEPT !.txns[id].category_id = new.category_id,
                    !.rules_applied = @ + 1, !.updated = @ + 1,
                    !.evaluated = @ \cup {id}]
    ELSE RecategorizeMl(st, id, txn, ml_model)

\* one row of a page: the call passes the description and the merchant
\* text, and neither merchant_id nor merchant_key
RecategorizeRow(st, id, ctx) ==
    RecategorizeRule(st, id, st.txns[id],
        categorize_transaction(ctx.M, ctx.O, ctx.R, ctx.order,
                               ctx.household_id, st.txns[id].description,
                               st.txns[id].merchant, None, NoText),
        ctx.ml_model)

RECURSIVE RecategorizePage(_, _, _)
RecategorizePage(st, page, ctx) ==
    IF page = <<>> \/ st.err # "None" THEN st
    ELSE RecategorizePage(RecategorizeRow(st, Head(page), ctx), Tail(page),
                          ctx)

\* db.commit() after the page; an exception in the page leaves the request
\* with the page not committed
RecategorizeCommit(st, paged) ==
    IF paged.err # "None" THEN [st EXCEPT !.err = paged.err] ELSE paged

\* the while loop: the query is run again for every page, at the next
\* offset
RECURSIVE RecategorizeFrom(_, _, _)
RecategorizeBatch(st, offset, ctx, page) ==
    IF page = <<>> THEN st
    ELSE IF Len(page) < BATCH_SIZE
    THEN RecategorizeCommit(st, RecategorizePage(st, page, ctx))
    ELSE IF RecategorizePage(st, page, ctx).err # "None"
    THEN RecategorizeCommit(st, RecategorizePage(st, page, ctx))
    ELSE RecategorizeFrom(RecategorizePage(st, page, ctx),
                          offset + BATCH_SIZE, ctx)

RecategorizeFrom(st, offset, ctx) ==
    RecategorizeBatch(st, offset, ctx,
        PageOf(RecategorizeMatching(st.txns, ctx.household_id), offset))

\* the request has ended: the response carries the counters
RecategorizeDone(st, household_id) ==
    /\ txns' = st.txns
    /\ call' = [op |-> "recategorize_transactions",
                household_id |-> household_id, before |-> txns,
                evaluated |-> st.evaluated, raised |-> st.err,
                updated |-> st.updated, rules_applied |-> st.rules_applied,
                ml_applied |-> st.ml_applied]
    /\ UNCHANGED <<merchants, rules, overrides, imports, runs, used, models,
                   artifacts, inflight>>

\* POST /maintenance/recategorize.  The model file is loaded once; a file
\* that does not load leaves ml_model = None
recategorize_transactions(household_id, order) ==
    RecategorizeDone(
        RecategorizeFrom([txns |-> txns, evaluated |-> {}, err |-> "None",
                          updated |-> 0, rules_applied |-> 0,
                          ml_applied |-> 0],
                         0,
                         [M |-> merchants, O |-> overrides, R |-> rules,
                          order |-> order, household_id |-> household_id,
                          ml_model |-> IF load_model(artifacts[household_id])
                                          = "None"
                                       THEN artifacts[household_id]
                                       ELSE NoArtifact]),
        household_id)

\* the rows of the query of recategorize_merchant_transactions: every
\* transaction of the merchant, or only those without a category
MerchantMatching(T, merchant_id, only_uncategorized) ==
    {i \in 1..Len(T) : /\ T[i].merchant_id = merchant_id
                       /\ only_uncategorized => T[i].category_id = None}

\* what categorize_transaction gives for a row, called with its merchant
\* columns
MerchantCategory(txn, ctx) ==
    categorize_transaction(ctx.M, ctx.O, ctx.R, ctx.order, ctx.household_id,
                           txn.description, txn.merchant, txn.merchant_id,
                           txn.merchant_key)

\* the loop over the rows: a row gets the new category when there is one
\* and it is not the one it has
MerchantRecategorized(T, matching, ctx) ==
    [i \in 1..Len(T) |->
        IF /\ i \in matching
           /\ MerchantCategory(T[i], ctx).category_id # None
           /\ MerchantCategory(T[i], ctx).category_id # T[i].category_id
        THEN [T[i] EXCEPT !.category_id
                              = MerchantCategory(T[i], ctx).category_id]
        ELSE T[i]]

\* the request has ended: with 404 when the merchant is not one of the
\* household, with the exception of a rule that does not compile and
\* nothing committed, or with the rows committed
MerchantDone(household_id, merchant_id, only_uncategorized, raised, after) ==
    /\ txns' = IF raised = "None" THEN after ELSE txns
    /\ call' = [op |-> "recategorize_merchant_transactions",
                household_id |-> household_id, merchant_id |-> merchant_id,
                only_uncategorized |-> only_uncategorized, before |-> txns,
                raised |-> raised,
                updated |-> IF raised # "None" THEN 0
                            ELSE Cardinality({i \in 1..Len(txns) :
                                                 after[i] # txns[i]})]
    /\ UNCHANGED <<merchants, rules, overrides, imports, runs, used, models,
                   artifacts, inflight>>

HTTP_404 == "HTTPException 404"

\* the exception of the first row whose categorization raises
MerchantRaised(T, matching, ctx) ==
    IF \E i \in matching : MerchantCategory(T[i], ctx).raised # "None"
    THEN MerchantCategory(
             T[CHOOSE i \in matching :
                  /\ MerchantCategory(T[i], ctx).raised # "None"
                  /\ \A j \in matching :
                        MerchantCategory(T[j], ctx).raised # "None" => i <= j],
             ctx).raised
    ELSE "None"

\* POST /maintenance/recategorize-merchant
recategorize_merchant_transactions(household_id, merchant_id, only_uncategorized, order) ==
    IF ~(/\ merchant_id \in 1..Len(merchants)
         /\ merchants[merchant_id].household_id = household_id)
    THEN MerchantDone(household_id, merchant_id, only_uncategorized,
                      HTTP_404, txns)
    ELSE MerchantDone(household_id, merchant_id, only_uncategorized,
             MerchantRaised(txns,
                 MerchantMatching(txns, merchant_id, only_uncategorized),
                 [M |-> merchants, O |-> overrides, R |-> rules,
                  order |-> order, household_id |-> household_id]),
             MerchantRecategorized(txns,
                 MerchantMatching(txns, merchant_id, only_uncategorized),
                 [M |-> merchants, O |-> overrides, R |-> rules,
                  order |-> order, household_id |-> household_id]))

\* the automatic operations, on a store filled by imports and changed by
\* the user's updates
RecategorizeMerchant ==
    \E h \in Households, merchant_id \in 1..(Len(merchants) + 1),
       only_uncategorized \in BOOLEAN :
        \E order \in RuleOrders(rules, h) :
            recategorize_merchant_transactions(h, merchant_id,
                                               only_uncategorized, order)

\* the maintenance sweeps on a corpus stored before merchants were linked
MaxCorpus == 4

CorpusKinds == {
    [description |-> DescCoffeeB, is_reviewed |-> TRUE],
    [description |-> DescCoffeeB, is_reviewed |-> FALSE],
    [description |-> DescPos, is_reviewed |-> TRUE] }

\* an uncategorized transaction with no merchant columns
OldRow(posted_date, kind) ==
    [LegacyRow(posted_date) EXCEPT
        !.description = kind.description,
        !.fingerprint = _compute_fingerprint(posted_date, Cents(-2000),
                                             kind.description),
        !.is_reviewed = kind.is_reviewed]

Corpora == UNION {[1..n -> CorpusKinds] : n \in 0..MaxCorpus}

InitMaintain ==
    /\ \E kinds \in Corpora :
          txns = [i \in 1..Len(kinds) |-> OldRow(i, kinds[i])]
    /\ imports = <<NewImport(1, <<>>, Len(txns), 0, 0)>>
    /\ merchants = <<>>
    /\ rules = <<NewRule(1, PatCoffee, 5, 5, TRUE)>>
    /\ overrides = <<>>
    /\ runs = <<>>
    /\ used = [imports |-> 0, updates |-> 0]
    /\ call = NoCall
    /\ models \in {NoModels, [NoModels EXCEPT ![1] = OldModel]}
    /\ artifacts = [h \in Households |->
                       IF models[h] = NoModel THEN NoArtifact ELSE OldArtifact]
    /\ inflight = NoRequests

Recategorize ==
    \E h \in Households :
        \E order \in RuleOrders(rules, h) : recategorize_transactions(h, order)

NextMaintain ==
    \/ Backfill
    \/ Recategorize

SpecMaintain == InitMaintain /\ [][NextMaintain]_vars

------------------------------------------------------------------------------
(* POST /imports served by two workers at once.  A request works in its   *)
(* own session: it reads the committed rows and the rows it has added,    *)
(* and what it has added is stored when it commits.                       *)

Workers == {1, 2}

Idle == [pc |-> "idle"]

\* the locals of ingest_import when its loop begins
NewRequest(account, stmt, import_id, order, fresh) ==
    [pc |-> "loop", account |-> account, stmt |-> stmt,
     import_id |-> import_id, order |-> order, fresh |-> fresh, i |-> 1,
     pending |-> <<>>, created |-> <<>>, seen |-> {}, imported |-> 0,
     skipped |-> 0]

\* create_import up to its first commit: the Import row is stored
BeginImport(w) ==
    /\ inflight[w].pc = "idle"
    /\ \E account \in Accounts, stmt \in Statements :
         \E order \in RuleOrders(rules, AccountHousehold[account]) :
            /\ imports' = Append(imports, NewImport(account, stmt, 0, 0, 0))
            /\ inflight' = [inflight EXCEPT ![w] =
                   NewRequest(account, stmt, Len(imports) + 1, order,
                              Fresh(stmt))]
    /\ UNCHANGED <<txns, merchants, rules, overrides, runs, used, call, models,
                   artifacts>>

\* Transaction.fingerprint is unique and so is (household_id, merchant_key)
\* of Merchant: the INSERT of a row the session has added fails when a
\* committed row has its fingerprint, or its household and key
Conflicts(T, M, req) ==
    \/ \E k \in 1..Len(req.pending), j \in 1..Len(T) :
          T[j].fingerprint = req.pending[k].fingerprint
    \/ \E k \in 1..Len(req.created), j \in 1..Len(M) :
          /\ M[j].household_id = req.created[k].household_id
          /\ M[j].merchant_key = req.created[k].merchant_key

\* what the request reads and does not change
RequestContext(req) ==
    [household_id |-> AccountHousehold[req.account],
     bank_account_id |-> req.account, import_id |-> req.import_id,
     O |-> overrides, R |-> rules, order |-> req.order]

\* the request ends with an exception: IntegrityError leaves the session
\* in a rolled back transaction, so the handler's own commit raises too
\* and nothing of the request is stored but the Import row
FailImport(w, req, raised) ==
    /\ inflight' = [inflight EXCEPT ![w] =
           [pc |-> "done", account |-> req.account, stmt |-> req.stmt,
            response |-> Run(req.stmt, req.fresh, raised, 0, 0, 0, 0)]]
    /\ runs' = Append(runs, Run(req.stmt, req.fresh, raised, 0, 0, 0, 0))
    /\ UNCHANGED <<txns, merchants, imports, rules, overrides, used, call,
                   models, artifacts>>

\* st: the session after the pass of the loop; the rows after the
\* committed ones are those the session has added
PassDone(w, req, st) ==
    IF st.err # "None" THEN FailImport(w, req, st.err)
    ELSE /\ inflight' = [inflight EXCEPT ![w] =
                [req EXCEPT
                    !.i = @ + 1,
                    !.pending = SubSeq(st.txns, Len(txns) + 1, Len(st.txns)),
                    !.created = SubSeq(st.merchants, Len(merchants) + 1,
                                       Len(st.merchants)),
                    !.seen = st.seen, !.imported = st.imported,
                    !.skipped = st.skipped]]
         /\ UNCHANGED <<txns, merchants, imports, rules, overrides, runs,
                        used, call, models, artifacts>>

\* one pass of the loop of ingest_import.  Its first query flushes the rows
\* the session has added
StepImport(w) ==
    /\ inflight[w].pc = "loop"
    /\ inflight[w].i <= Len(inflight[w].stmt)
    /\ IF Conflicts(txns, merchants, inflight[w])
       THEN FailImport(w, inflight[w], "IntegrityError")
       ELSE PassDone(w, inflight[w],
                IngestCandidate(
                    [txns |-> txns \o inflight[w].pending,
                     merchants |-> merchants \o inflight[w].created,
                     seen |-> inflight[w].seen,
                     imported |-> inflight[w].imported,
                     skipped |-> inflight[w].skipped, err |-> "None"],
                    inflight[w].stmt[inflight[w].i],
                    RequestContext(inflight[w])))

\* the rows the session has added, with the ids their merchants have in
\* the table M
Relinked(pending, M, household_id) ==
    [k \in 1..Len(pending) |->
        IF pending[k].merchant_id = None THEN pending[k]
        ELSE [pending[k] EXCEPT
                 !.merchant_id = MerchantByKey(M, household_id,
                                               pending[k].merchant_key)]]

\* the commit has stored T and M; the sweep runs on them and the response
\* is returned.  results: what the sweep's categorize calls gave
RequestSwept(w, req, T, M, results) ==
    IF SweepRaised(results) = "None"
    THEN /\ txns' = SweepRules(T, results)
         /\ merchants' = M
         /\ imports' = [imports EXCEPT ![req.import_id] =
                NewImport(req.account, req.stmt, req.imported, req.skipped,
                          0)]
         /\ runs' = Append(runs,
                Run(req.stmt, req.fresh, "None", req.imported, req.skipped,
                    SweepUpdated(results), SweepMlApplied))
         /\ inflight' = [inflight EXCEPT ![w] =
                [pc |-> "done", account |-> req.account, stmt |-> req.stmt,
                 response |-> Run(req.stmt, req.fresh, "None", req.imported,
                                  req.skipped, SweepUpdated(results),
                                  SweepMlApplied)]]
    ELSE /\ txns' = T
         /\ merchants' = M
         /\ imports' = [imports EXCEPT ![req.import_id] =
                NewImport(req.account, req.stmt, req.imported, req.skipped,
                          1)]
         /\ runs' = Append(runs, Run(req.stmt, req.fresh,
                                     SweepRaised(results), 0, 0, 0, 0))
         /\ inflight' = [inflight EXCEPT ![w] =
                [pc |-> "done", account |-> req.account, stmt |-> req.stmt,
                 response |-> Run(req.stmt, req.fresh, SweepRaised(results),
                                  0, 0, 0, 0)]]

RequestCommitted(w, req, T, M) ==
    /\ RequestSwept(w, req, T, M, SweepResults(T, M, RequestContext(req)))
    /\ UNCHANGED <<rules, overrides, used, call, models, artifacts>>

\* the loop has ended: db.commit() of ingest_import, then the sweep
CommitImport(w) ==
    /\ inflight[w].pc = "loop"
    /\ inflight[w].i > Len(inflight[w].stmt)
    /\ IF Conflicts(txns, merchants, inflight[w])
       THEN FailImport(w, inflight[w], "IntegrityError")
       ELSE RequestCommitted(w, inflight[w],
                txns \o Relinked(inflight[w].pending,
                                 merchants \o inflight[w].created,
                                 AccountHousehold[inflight[w].account]),
                merchants \o inflight[w].created)

InitRace ==
    /\ txns = <<>>
    /\ imports = <<>>
    /\ merchants = <<>>
    /\ rules = <<>>
    /\ overrides = <<>>
    /\ runs = <<>>
    /\ used = [imports |-> 0, updates |-> 0]
    /\ call = NoCall
    /\ models = NoModels
    /\ artifacts = NoArtifacts
    /\ inflight = [w \in Workers |-> Idle]

NextRace ==
    \/ \E w \in Workers : BeginImport(w)
    \/ \E w \in Workers : StepImport(w)
    \/ \E w \in Workers : CommitImport(w)

SpecRace == InitRace /\ [][NextRace]_vars

\* the values of min_new_examples that are requested; 50 is the default
MinNewExamples == {0, 1, 5, 50}

\* household 1 has no example, examples of one category or of two; it has
\* no model or the old one
InitServe ==
    /\ \E a \in {0, 5, 6}, c \in {0, 5} :
          txns = RowsOf(a, 0, DescNetflix, KeyNetflix, 1, 7)
                 \o RowsOf(c, 30, DescCoffeeB, KeyCoffee, 2, 5)
                 \o Unselected
    /\ imports = <<NewImport(1, <<>>, Len(txns), 0, 0)>>
    /\ merchants = <<NewMerchant(1, KeyNetflix, KeyNetflix),
                     NewMerchant(1, KeyCoffee, KeyCoffee),
                     NewMerchant(2, KeyNetflix, KeyNetflix)>>
    /\ rules = <<>>
    /\ overrides = <<>>
    /\ runs = <<>>
    /\ used = [imports |-> 0, updates |-> 0]
    /\ call = NoCall
    /\ models \in {NoModels, [NoModels EXCEPT ![1] = OldModel]}
    /\ artifacts = [h \in Households |->
                       IF models[h] = NoModel THEN NoArtifact ELSE OldArtifact]
    /\ inflight = NoRequests

Retrain ==
    \E household_id \in Households, min_new_examples \in MinNewExamples :
        retrain_if_needed(household_id, min_new_examples)

Predict == \E household_id \in Households : predict_ml(household_id)

\* a transaction of household 1 is given a category or reviewed
Relabel ==
    \E id \in 1..Len(txns), c \in BodyCategories, r \in BodyReviewed :
        update_transaction(1, id, c, r, FALSE)

NextServe ==
    \/ Train
    \/ TrainModel
    \/ Retrain
    \/ Predict
    \/ Relabel

SpecServe == InitServe /\ [][NextServe]_vars

\* dump(pipe, model_path) of train_classifier, and joblib.dump of
\* save_model, open the final path for writing and pickle into it: from the
\* open until the close the file holds a prefix of the pickle
Dumping(fit) == [fit EXCEPT !.written = "partial"]

\* the training request that is writing its artifact
DumpRequest(household_id, examples, fit) ==
    [household_id |-> household_id, fit |-> fit,
     metadata |-> [model_type |-> fit.model_type,
                   n_examples |-> TrainPart(examples).n_examples,
                   categories |-> TrainPart(examples).categories,
                   last_example_count |-> None]]

\* train_ml_model of api/ml.py up to the open of the dump
BeginDumpWith(household_id, examples) ==
    /\ examples # <<>>
    /\ train_classifier(household_id, TrainPart(examples), "logreg") = "saved"
    /\ \E fit \in Fits("logreg", TrainPart(examples).n_examples,
                         TrainPart(examples).categories) :
          /\ artifacts' = [artifacts EXCEPT ![household_id] = Dumping(fit)]
          /\ inflight' = <<DumpRequest(household_id, examples, fit)>>
    /\ UNCHANGED <<txns, merchants, rules, overrides, imports, runs, used,
                   call, models>>

BeginDump ==
    /\ inflight = NoRequests
    /\ \E household_id \in Households :
          BeginDumpWith(household_id,
              get_training_examples(txns, household_id, MIN_COUNT))

\* the dump is closed, the metadata is written and the request answers
EndDump ==
    /\ inflight # NoRequests
    /\ artifacts' = [artifacts EXCEPT ![inflight[1].household_id] =
                        inflight[1].fit]
    /\ models' = [models EXCEPT ![inflight[1].household_id] =
                     inflight[1].metadata]
    /\ call' = [op |-> "train_ml_model",
                household_id |-> inflight[1].household_id,
                before |-> models, outcome |-> "saved"]
    /\ inflight' = NoRequests
    /\ UNCHANGED <<txns, merchants, rules, overrides, imports, runs, used>>

NextSwap ==
    \/ BeginDump
    \/ EndDump
    \/ Predict
    \/ Relabel

SpecSwap == InitServe /\ [][NextSwap]_vars

------------------------------------------------------------------------------
(* Claims about imports and merchants *)

\* a request that returned normally, and one that failed after it had
\* persisted rows
Returns(i) == runs[i].raised = "None"

\* import i (the k-th request is import row k, after the legacy import if
\* the store began with one) left rows although it failed
RowsOfRun(i) ==
    LET import_id == i + (Len(imports) - Len(runs))
    IN  {k \in 1..Len(txns) : txns[k].import_id = import_id}

\* run i and run i + 1 are the same statement, both return, and the store
\* held none of the statement's transactions before run i
TwiceInSequence(i) ==
    /\ i \in 1..(Len(runs) - 1)
    /\ runs[i].fresh
    /\ runs[i + 1].stmt = runs[i].stmt
    /\ Returns(i) /\ Returns(i + 1)

\* C1 as stated: the second of two imports of the same statement in
\* sequence, the first from a store without the statement's transactions,
\* returns imported_count = 0 and skipped_count = N, N the first run's
\* imported_count.
C1_SecondRunSkipsN ==
    \A i \in 1..(Len(runs) - 1) :
        TwiceInSequence(i) =>
            /\ runs[i + 1].imported_count = 0
            /\ runs[i + 1].skipped_count = runs[i].imported_count

\* C1 amended: the second run imports nothing and skips every candidate of
\* the statement, which is N plus the candidates the first run skipped as
\* duplicates inside the batch.
C1_SecondRunSkipsAll ==
    \A i \in 1..(Len(runs) - 1) :
        TwiceInSequence(i) =>
            /\ runs[i + 1].imported_count = 0
            /\ runs[i + 1].skipped_count =
                   runs[i].imported_count + runs[i].skipped_count
            /\ runs[i + 1].skipped_count = Len(runs[i].stmt)

C1_Witness ==
    \E i \in 1..(Len(runs) - 1) :
        /\ TwiceInSequence(i)
        /\ runs[i].imported_count > 0
        /\ runs[i].skipped_count > 0

\* C2: no two stored transactions have the same fingerprint, after any
\* sequence of imports, replays of failed imports included.
C2_FingerprintsUnique ==
    \A i, j \in 1..Len(txns) :
        i # j => txns[i].fingerprint # txns[j].fingerprint

\* an import failed after it had persisted a row, and its file was replayed
C2_Witness ==
    \E i \in 1..(Len(runs) - 1) :
        /\ ~Returns(i)
        /\ RowsOfRun(i) # {}
        /\ runs[i + 1].stmt = runs[i].stmt
        /\ Returns(i + 1)
        /\ runs[i + 1].skipped_count > 0

\* C9: at most one Merchant per (household, merchant_key), and none whose
\* key is "UNKNOWN".
C9_MerchantsUnique ==
    /\ \A i, j \in 1..Len(merchants) :
           (/\ i # j
            /\ merchants[i].household_id = merchants[j].household_id)
               => merchants[i].merchant_key # merchants[j].merchant_key
    /\ \A i \in 1..Len(merchants) : merchants[i].merchant_key # UNKNOWN

\* merchants were created by an import and by a backfill or an update, and a
\* row whose key is UNKNOWN is stored
C9_Witness ==
    /\ Len(merchants) >= 2
    /\ \E j, k \in 1..Len(txns) :
           /\ j # k
           /\ IsLegacy(txns[j]) /\ IsLegacy(txns[k])
           /\ txns[j].merchant_id # None
           /\ txns[j].merchant_id = txns[k].merchant_id
    /\ \E k \in 1..Len(txns) : txns[k].merchant_key = UNKNOWN

------------------------------------------------------------------------------
(* Claims about categorize_transaction *)

\* the key of the lookups of the recorded call, and what its three lookups
\* give
CallKey == LookupKey(call.description, call.merchant, call.merchant_key)
CallById == MerchantDefaultById(merchants, call.merchant_id)
CallByKey == MerchantDefaultByKey(merchants, call.household_id, CallKey)
CallByOverride == OverrideByKey(overrides, call.household_id, CallKey)

\* the pattern compiles, matches the uppercased description and the rule has
\* a category
RuleMatches(rule, description) ==
    /\ Compile(rule.pattern) = "ok"
    /\ Search(rule.pattern, UpperText(description))
    /\ rule.category_id # None

\* the enabled rules of the call's household that match its description
MatchingRules ==
    {i \in 1..Len(rules) : /\ rules[i].household_id = call.household_id
                           /\ rules[i].enabled
                           /\ RuleMatches(rules[i], call.description)}

\* the category of the first matching rule in the order the query returned
FirstMatching ==
    IF \E k \in 1..Len(call.order) : call.order[k] \in MatchingRules
    THEN rules[call.order[FirstId({k \in 1..Len(call.order) :
                              call.order[k] \in MatchingRules})]].category_id
    ELSE None

\* C3: categorize_transaction returns the first non-null of: the default of
\* the merchant found by id, the default of the household merchant found by
\* key, the category of the household override, the category of the first
\* matching enabled rule
C3_FirstNonNull ==
    call.op = "categorize_transaction" =>
        /\ call.result.raised = "None"
        /\ call.result.category_id =
              IF CallById # None THEN CallById
              ELSE IF CallByKey # None THEN CallByKey
              ELSE IF CallByOverride # None THEN CallByOverride
              ELSE FirstMatching

\* C4: without a merchant default and an override, the result is the category
\* of a matching enabled household rule of the smallest priority number, and
\* none when no rule matches
C4_SmallestPriority ==
    (/\ call.op = "categorize_transaction"
     /\ CallById = None /\ CallByKey = None /\ CallByOverride = None) =>
        /\ call.result.raised = "None"
        /\ IF MatchingRules = {} THEN call.result.category_id = None
           ELSE \E i \in MatchingRules :
                   /\ \A j \in MatchingRules :
                          rules[i].priority <= rules[j].priority
                   /\ call.result.category_id = rules[i].category_id

\* C5: the result equals the result on the rules whose patterns compile
C5_InvalidSkipped ==
    call.op = "categorize_transaction" =>
        call.result = categorize_transaction(
            merchants, overrides, rules,
            SelectSeq(call.order,
                      LAMBDA i : Compile(rules[i].pattern) = "ok"),
            call.household_id, call.description, call.merchant,
            call.merchant_id, call.merchant_key)

------------------------------------------------------------------------------
(* Claims about the parser *)

\* reading the document failed: at open, or on one of its pages
ReadingFails(pdf) ==
    ~pdf.opens \/ \E k \in 1..Len(pdf.pages) : pdf.pages[k].raises

\* C6: when reading fails, parse returns no transaction and exactly one
\* warning
C6_FailureGivesNothing ==
    (call.op = "parse" /\ ReadingFails(call.pdf)) =>
        /\ call.result.transactions = <<>>
        /\ Len(call.result.warnings) = 1

------------------------------------------------------------------------------
(* Claims about rule mining *)

\* in how many reviewed, categorized transactions of the household, with a
\* category of cats, the token occurs
Support(token, household_id, cats) ==
    Cardinality({i \in 1..Len(txns) :
        /\ TxnHousehold(txns[i]) = household_id
        /\ txns[i].is_reviewed
        /\ txns[i].category_id \in cats
        /\ token \in SeenTokens(Tokenized(<<txns[i]>>))})

\* the category of share 0.90 or more, if the token has one
MajorityOf(token, household_id) ==
    {c \in Categories : 10 * Support(token, household_id, {c})
                            >= 9 * Support(token, household_id, Categories)}

IsCandidate(token, household_id) ==
    /\ Support(token, household_id, Categories) >= 5
    /\ MajorityOf(token, household_id) # {}

\* the rules of the household with the token's pattern
RulesFor(R, token, household_id) ==
    {i \in 1..Len(R) : /\ R[i].household_id = household_id
                       /\ R[i].pattern = WordPattern(token)}

\* C7: a token is a candidate iff it occurs in 5 or more reviewed, categorized
\* transactions of the household, each counted once, and its majority
\* category has a share of 0.90 or more: the response counts these tokens,
\* each has an enabled rule of its majority category, and the rules of every
\* other token are left as they were; 6 reviewed NETFLIX transactions of
\* category 7 give the rule \bNETFLIX\b with category 7
C7_CandidateIff ==
    call.op = "generate_rules" =>
        /\ call.response.candidates =
              Cardinality({token \in SeenTokens(Tokenized(txns)) :
                              IsCandidate(token, call.household_id)})
        /\ \A token \in SeenTokens(Tokenized(txns)) :
              IF IsCandidate(token, call.household_id)
              THEN \E i \in RulesFor(rules, token, call.household_id) :
                      /\ rules[i].enabled
                      /\ rules[i].category_id
                             \in MajorityOf(token, call.household_id)
              ELSE /\ RulesFor(rules, token, call.household_id)
                         = RulesFor(call.before, token, call.household_id)
                   /\ \A i \in RulesFor(rules, token, call.household_id) :
                          rules[i] = call.before[i]
        /\ (/\ Support("NETFLIX", call.household_id, {7}) = 6
            /\ Support("NETFLIX", call.household_id, Categories) = 6)
               => \E i \in 1..Len(rules) :
                     /\ rules[i].household_id = call.household_id
                     /\ rules[i].pattern = PatNetflixWord
                     /\ rules[i].category_id = 7

\* generate_rules has run on 6 reviewed NETFLIX transactions of category 7
C7_Witness ==
    /\ call.op = "generate_rules"
    /\ Support("NETFLIX", call.household_id, {7}) = 6
    /\ Support("NETFLIX", call.household_id, Categories) = 6
    /\ call.response.created > 0

\* C8: the second of two runs of generate_rules in a row leaves the rule
\* store as the first run left it and reports created = 0
C8_SecondRunChangesNothing ==
    (call.op = "generate_rules" /\ call.again) =>
        /\ rules = call.before
        /\ call.response.created = 0

\* the second run had candidates to upsert
C8_Witness ==
    /\ call.op = "generate_rules"
    /\ call.again
    /\ call.response.updated > 1
    /\ Len(rules) > 1

\* the candidate tokens of the household of the call
CandidateTokens ==
    {token \in SeenTokens(Tokenized(txns)) :
        IsCandidate(token, call.household_id)}

\* the priority mined for a candidate token
MinedPriority(token, household_id) ==
    _compute_priority(
        Support(token, household_id,
                {CHOOSE c \in MajorityOf(token, household_id) : TRUE}),
        Support(token, household_id, Categories))

\* C25: for every candidate, a rule of the household with the same pattern,
\* enabled or not, gets the candidate's category and priority and is
\* enabled, and no second rule with that pattern is created; without such
\* a rule exactly one is created; created + updated = candidates
C25_UpsertByPattern ==
    call.op = "generate_rules" =>
        /\ \A token \in CandidateTokens :
              IF RulesFor(call.before, token, call.household_id) # {}
              THEN /\ RulesFor(rules, token, call.household_id)
                        = RulesFor(call.before, token, call.household_id)
                   /\ \E i \in RulesFor(rules, token, call.household_id) :
                         /\ rules[i].enabled
                         /\ rules[i].category_id
                               \in MajorityOf(token, call.household_id)
                         /\ rules[i].priority
                               = MinedPriority(token, call.household_id)
              ELSE /\ Cardinality(RulesFor(rules, token, call.household_id))
                        = 1
                   /\ \A i \in RulesFor(rules, token, call.household_id) :
                         /\ rules[i].enabled
                         /\ rules[i].category_id
                               \in MajorityOf(token, call.household_id)
                         /\ rules[i].priority
                               = MinedPriority(token, call.household_id)
        /\ call.response.updated
             = Cardinality({token \in CandidateTokens :
                   RulesFor(call.before, token, call.household_id) # {}})
        /\ Len(rules) = Len(call.before) + call.response.created
        /\ call.response.created + call.response.updated
             = call.response.candidates

\* a disabled rule of category 5 with the pattern of a candidate of category
\* 7 was found and updated, and rules were created for other candidates
C25_Witness ==
    /\ call.op = "generate_rules"
    /\ ~call.again
    /\ call.before = <<NewRule(1, PatNetflixWord, 5, 100, FALSE)>>
    /\ call.household_id = 1
    /\ call.response.updated = 1
    /\ call.response.created = 3
    /\ rules[1].enabled
    /\ rules[1].category_id = 7

------------------------------------------------------------------------------
(* Claims about training *)

\* C10: training a household whose examples have fewer than 2 categories, or
\* are fewer than the minimum, fails with the insufficient-data error and
\* leaves the household's persisted model as it was
C10_InsufficientDataFails ==
    (/\ call.op \in {"train_ml", "train_ml_model"}
     /\ \/ Cardinality(Labels(Labelled(txns, call.household_id))) < 2
        \/ Len(Labelled(txns, call.household_id)) < MIN_EXAMPLES) =>
        /\ call.outcome = HTTP_400
        /\ models = call.before

------------------------------------------------------------------------------
(* Claims about prediction and retraining *)

TrainingOps == {"train_ml", "train_ml_model", "retrain_if_needed"}

\* C11: predict_ml for a household answers 404, model not found, exactly
\* when no model.joblib has been persisted for that household; the file of
\* a household is written only by a training of that same household that
\* succeeds, and it is never removed, so a training of one household does
\* not make predict_ml of another household succeed
C11_NotFoundIffUntrained ==
    /\ [](call.op = "predict_ml" =>
            /\ call.response.status = 404
                   <=> artifacts[call.household_id].written = "none"
            /\ call.response.status = 200
                   <=> artifacts[call.household_id].written = "complete")
    /\ [][\A h \in Households :
             /\ artifacts'[h] # artifacts[h] =>
                   /\ call'.op \in TrainingOps
                   /\ call'.household_id = h
                   /\ call'.outcome = "saved"
             /\ artifacts[h].written # "none" =>
                   artifacts'[h].written # "none"]_vars

\* predict_ml of household 1 succeeds on a model trained since the start,
\* while household 2 has none
C11_Witness ==
    /\ call.op = "predict_ml"
    /\ call.household_id = 1
    /\ call.response.status = 200
    /\ artifacts[1] # OldArtifact
    /\ artifacts[2].written = "none"

\* the examples of the call can be trained on: they have two categories
\* or more
Trainable == Cardinality(call.categories) >= 2

\* the new examples of the call: the count of the examples minus the
\* recorded last_example_count, 0 when none is recorded
Delta ==
    call.n_examples
    - (IF call.before[call.household_id].last_example_count = None THEN 0
       ELSE call.before[call.household_id].last_example_count)

RetrainUnchanged ==
    /\ models = call.before
    /\ artifacts[call.household_id] = call.artifact

C20_NoRetrainAfterTrain ==
    (/\ call.op = "retrain_if_needed"
     /\ call.trained
     /\ call.min_new_examples >= 1) =>
        /\ call.outcome = "not retrained"
        /\ ~call.response.retrained
        /\ artifacts[call.household_id] = call.artifact

------------------------------------------------------------------------------
(* Claims about the fingerprint *)

\* the number an amount stands for, in thousandths
AmountValue(amount) ==
    (IF amount.sign = 1 THEN -1 ELSE 1)
    * amount.digits * (IF amount.places = 1 THEN 100 ELSE 10)

\* the words of a description, without their case
WordsOf(description) ==
    SelectSeq(UpperText(description), LAMBDA x : x \notin Whitespace)

\* C13: two inputs of equal date and equal amount whose descriptions differ
\* only in letter case, surrounding whitespace and runs of whitespace have
\* the same fingerprint, and two inputs that differ in date or in amount
\* have different fingerprints
C13_FingerprintModuloCaseAndSpace ==
    call.op = "_compute_fingerprint" =>
        /\ (/\ call.a.posted_date = call.b.posted_date
             /\ AmountValue(call.a.amount) = AmountValue(call.b.amount)
             /\ WordsOf(call.a.description) = WordsOf(call.b.description))
               => call.fa = call.fb
        /\ (\/ call.a.posted_date # call.b.posted_date
             \/ AmountValue(call.a.amount) # AmountValue(call.b.amount))
               => call.fa # call.fb

------------------------------------------------------------------------------
(* Claims about the ML pass of the import *)

\* the rows of the import of run i
ImportRows(i) ==
    {k \in 1..Len(txns) : txns[k].import_id = i + (Len(imports) - Len(runs))}

\* the pipeline of the household run i imported for
ImportArtifact(i) ==
    artifacts[AccountHousehold[
        imports[i + (Len(imports) - Len(runs))].bank_account_id]]

\* C14: when ingest_import has finished for a household with a trained
\* model whose predictions reach the threshold, no row of the import is
\* left without a category (the rows the rule pass left are set to the
\* predicted category); ml_applied counts rows only if the predictions
\* reach the threshold
C14_ConfidentPredictionApplied ==
    \A i \in 1..Len(runs) :
        (runs[i].raised = "None" /\ ImportArtifact(i).written = "complete") =>
            /\ ImportArtifact(i).confidence >= ML_MIN_CONFIDENCE =>
                  \A k \in ImportRows(i) : txns[k].category_id # None
            /\ ImportArtifact(i).confidence < ML_MIN_CONFIDENCE =>
                  runs[i].ml_applied = 0

------------------------------------------------------------------------------
(* Claims about concurrent imports *)

\* C15: when two imports whose statements share a candidate have both
\* ended, however their steps interleaved, both have completed
\* successfully with every candidate imported or skipped, every
\* fingerprint of their statements is stored exactly once and no merchant
\* key is stored twice for a household: the loser of a race counts the
\* candidate as skipped
C15_RaceBecomesSkip ==
    (/\ \A w \in Workers : inflight[w].pc = "done"
     /\ StatementFingerprints(inflight[1].stmt)
          \cap StatementFingerprints(inflight[2].stmt) # {}) =>
        /\ \A w \in Workers :
              /\ inflight[w].response.raised = "None"
              /\ inflight[w].response.imported_count
                   + inflight[w].response.skipped_count
                   = Len(inflight[w].stmt)
        /\ \A w \in Workers :
              \A f \in StatementFingerprints(inflight[w].stmt) :
                  Cardinality({k \in 1..Len(txns) :
                                  txns[k].fingerprint = f}) = 1
        /\ \A i, j \in 1..Len(merchants) :
              (/\ merchants[i].household_id = merchants[j].household_id
               /\ merchants[i].merchant_key = merchants[j].merchant_key)
                  => i = j

\* C16: a predict for a household, at whatever point of a train for the
\* household it runs, finds a complete artifact (the one persisted before
\* or the new one) and never a partially written one, so it never fails
\* to load a model that exists
C16_PredictLoadsCompleteModel ==
    call.op = "predict_ml" =>
        /\ call.artifact.written # "partial"
        /\ call.response.status \in {200, 404}

------------------------------------------------------------------------------
(* Claims about the maintenance sweeps *)

\* C17: a run of the recategorize sweep that ends without an exception has
\* evaluated every transaction of the household that was uncategorized or
\* unreviewed when the run began, whatever the number of such rows and the
\* page size
C17_SweepEvaluatesEveryEligibleRow ==
    (call.op = "recategorize_transactions" /\ call.raised = "None") =>
        \A i \in 1..Len(call.before) :
            (/\ TxnHousehold(call.before[i]) = call.household_id
             /\ call.before[i].category_id = None
                  \/ ~call.before[i].is_reviewed)
                => i \in call.evaluated

\* C18: after a run of the merchant backfill with force = false, every
\* transaction of the household whose description gives a key other than
\* UNKNOWN has that key as merchant_key and is linked to the household's
\* Merchant with that key
C18_BackfillLinksEveryRow ==
    (call.op = "backfill_merchants" /\ ~call.force) =>
        \A i \in 1..Len(txns) :
            (/\ TxnHousehold(txns[i]) = call.household_id
             /\ extract_merchant_key(txns[i].description) # UNKNOWN)
                => /\ txns[i].merchant_key
                       = extract_merchant_key(txns[i].description)
                   /\ txns[i].merchant_id # None
                   /\ txns[i].merchant_id
                       = MerchantByKey(merchants, call.household_id,
                             extract_merchant_key(txns[i].description))

------------------------------------------------------------------------------
(* Claims about the scope of the duplicate check *)

\* the household of import k
ImportHousehold(k) == AccountHousehold[imports[k].bank_account_id]

\* the fingerprints of the statement of import k that an earlier import had
\* stored for another household
StoredElsewhere(k) ==
    {f \in StatementFingerprints(imports[k].stored_path) :
        \E j \in 1..Len(txns) : /\ txns[j].fingerprint = f
                                /\ txns[j].import_id < k
                                /\ TxnHousehold(txns[j]) # ImportHousehold(k)}

\* import k has committed its counts
Counted(k) ==
    imports[k].imported_count + imports[k].skipped_count
        = Len(imports[k].stored_path)

\* C19: the duplicate check is not scoped by household: a candidate of an
\* import whose fingerprint is stored for another household is skipped as
\* a duplicate, and no row with that fingerprint is stored by the import or
\* for its household
C19_DuplicateCheckIsGlobal ==
    \A k \in 1..Len(imports) :
        /\ \A f \in StoredElsewhere(k) :
              \A j \in 1..Len(txns) :
                  txns[j].fingerprint = f =>
                      /\ txns[j].import_id # k
                      /\ TxnHousehold(txns[j]) # ImportHousehold(k)
        /\ Counted(k) =>
              imports[k].skipped_count >= Cardinality(StoredElsewhere(k))

C19_Witness ==
    \E k \in 1..Len(imports) :
        /\ StoredElsewhere(k) # {}
        /\ Counted(k)
        /\ imports[k].skipped_count >= 1
        /\ imports[k].imported_count >= 1

------------------------------------------------------------------------------
(* Updates that set a merchant default, and imports of later statements *)

\* statements of two months: the coffee shop is on both
DatedStatements == {
    <<Cand(1, DescCoffeeB, -450), Cand(2, DescPos, -1000)>>,
    <<Cand(3, DescCoffeeA, -450), Cand(3, DescNetflix, -1599)>> }

\* the household has no rule, or a rule that gives the coffee shop the
\* category 7
InitDefault ==
    /\ txns = <<>>
    /\ imports = <<>>
    /\ merchants = <<>>
    /\ rules \in {<<>>, <<NewRule(1, PatCoffee, 7, 10, TRUE)>>}
    /\ overrides = <<>>
    /\ runs = <<>>
    /\ used = [imports |-> 0, updates |-> 0]
    /\ call = NoCall
    /\ models = NoModels
    /\ artifacts = NoArtifacts
    /\ inflight = NoRequests

ImportDated ==
    \E account \in Accounts, stmt \in DatedStatements :
        \E order \in RuleOrders(rules, AccountHousehold[account]) :
            CreateImport(account, stmt, 0, order)

NextDefault ==
    \/ ImportDated
    \/ Update
    \/ BulkUpdate

SpecDefault == InitDefault /\ [][NextDefault]_vars

\* the automatic operations and the user's updates on that store
NextAutomatic ==
    \/ ImportDated
    \/ Update
    \/ Backfill
    \/ Recategorize
    \/ RecategorizeMerchant

SpecAutomatic == InitDefault /\ [][NextAutomatic]_vars

------------------------------------------------------------------------------
(* Claims about the merchant default *)

\* the household's Merchant with this key has the default category c
HasDefault(M, household_id, merchant_key, c) ==
    \E i \in 1..Len(M) : /\ M[i].household_id = household_id
                          /\ M[i].merchant_key = merchant_key
                          /\ M[i].default_category_id = c

\* the step is an update of row id of the household to category c with
\* create_merchant_override
OverrideStep(household_id, id, c) ==
    /\ TxnHousehold(txns[id]) = household_id
    /\ CategoryHousehold[c] = household_id
    /\ Len(txns') = Len(txns)
    /\ txns'[id].category_id = c
    /\ \E r \in BodyReviewed : update_transaction(household_id, id, c, r, TRUE)

\* the step is a bulk update of the rows 1..hi of the household to category
\* c with apply_to_merchant
BulkOverrideStep(household_id, hi, c) ==
    /\ CategoryHousehold[c] = household_id
    /\ Len(txns') = Len(txns)
    /\ \A id \in 1..hi : TxnHousehold(txns[id]) = household_id
                            => txns'[id].category_id = c
    /\ \E r \in BodyReviewed :
          bulk_update_transactions(household_id, 1..hi, c, r, TRUE)

\* every row the step has added, whose key has a default category in the
\* household of its account before the step, is stored with that category
ImportedWithDefault ==
    \A j \in (Len(txns) + 1)..Len(txns') :
        \A i \in 1..Len(merchants) :
            (/\ merchants[i].household_id = TxnHousehold(txns'[j])
             /\ merchants[i].default_category_id # None
             /\ merchants[i].merchant_key
                  = extract_merchant_key(txns'[j].description))
                => txns'[j].category_id = merchants[i].default_category_id

\* C21: an update of a transaction to category c with
\* create_merchant_override, or a bulk update with apply_to_merchant, gives
\* the household's Merchant of the key of every updated transaction whose
\* key is not UNKNOWN the default category c; and an import stores every
\* new transaction whose key has a default category in the household with
\* that category: the default stays until an update changes it
C21_MerchantDefaultApplies ==
    [][/\ used' # used =>
            /\ \A h \in Households, id \in 1..Len(txns), c \in Categories :
                  (/\ OverrideStep(h, id, c)
                   /\ extract_merchant_key(txns[id].description) # UNKNOWN)
                      => HasDefault(merchants', h,
                             extract_merchant_key(txns[id].description), c)
            /\ \A h \in Households, hi \in 1..Len(txns), c \in Categories :
                  BulkOverrideStep(h, hi, c) =>
                      \A id \in 1..hi :
                          (/\ TxnHousehold(txns[id]) = h
                           /\ extract_merchant_key(txns[id].description)
                                # UNKNOWN)
                              => HasDefault(merchants', h,
                                     extract_merchant_key(
                                         txns[id].description), c)
       /\ Len(txns') > Len(txns) => ImportedWithDefault
       /\ \A i \in 1..Len(merchants) :
             merchants'[i].default_category_id
                 # merchants[i].default_category_id
                 => used'.updates # used.updates]_vars

\* one update has given the merchant of a row its default, and a row of
\* the same merchant imported later is stored with it, where the rule gives
\* another category: the row is not reviewed and an earlier row of the
\* household has no category, so no update has touched it
C21_Witness ==
    /\ rules # <<>>
    /\ used.updates = 1
    /\ \E i, j, k \in 1..Len(txns) :
          /\ i < j /\ k < j
          /\ txns[i].merchant_id # None
          /\ txns[j].merchant_id = txns[i].merchant_id
          /\ txns[j].import_id > txns[i].import_id
          /\ merchants[txns[j].merchant_id].default_category_id = 5
          /\ txns[j].category_id = 5
          /\ ~txns[j].is_reviewed
          /\ TxnHousehold(txns[k]) = TxnHousehold(txns[j])
          /\ txns[k].category_id = None

------------------------------------------------------------------------------
(* Claims about the walk over the lines of a page *)

\* the line is a section header: it has a deposit or a withdrawal marker
\* and no section-end marker
IsHeader(line_words) ==
    /\ \/ AnyIn(DEPOSIT_MARKERS, LineLower(line_words))
       \/ AnyIn(WITHDRAWAL_MARKERS, LineLower(line_words))
    /\ ~AnyIn(SECTION_END_MARKERS, LineLower(line_words))

\* C22: every line with a section-end marker leaves no pending row and no
\* current section, and when no section header follows it the lines after
\* it add no transaction to those of the page up to that line
C22_SectionEndClearsSection ==
    call.op = "_parse_page" =>
        \A i \in 1..Len(call.lines) :
            AnyIn(SECTION_END_MARKERS, LineLower(call.lines[i])) =>
                /\ ParseLines(PageStart, SubSeq(call.lines, 1, i), 1).section
                     = "None"
                /\ ParseLines(PageStart, SubSeq(call.lines, 1, i), 1).row
                     = <<>>
                /\ (\A k \in (i + 1)..Len(call.lines) :
                        ~IsHeader(call.lines[k]))
                     => call.result.transactions
                          = _parse_page(SubSeq(call.lines, 1, i)).transactions

\* the place, from 1, of the rightmost word of the row that is an amount,
\* 0 when there is none
RightmostAmount(row) ==
    IF \E i \in 1..Len(row) : AMOUNT_PATTERN(Strip(row[i]))
    THEN CHOOSE i \in 1..Len(row) :
             /\ AMOUNT_PATTERN(Strip(row[i]))
             /\ \A j \in 1..Len(row) : AMOUNT_PATTERN(Strip(row[j])) => j <= i
    ELSE 0

\* C23: for every finalized row, the description that is emitted is the
\* words of the row to the left of its rightmost amount word; a row without
\* an amount word, or with no word to the left of it, emits no transaction
\* and adds exactly one warning
C23_DescriptionLeftOfAmount ==
    call.op = "_parse_page" =>
        /\ \A e \in 1..Len(call.result.rows) :
              IF RightmostAmount(call.result.rows[e].row) <= 1
              THEN /\ ~call.result.rows[e].result.emitted
                   /\ call.result.rows[e].result.warning # "None"
              ELSE /\ call.result.rows[e].result.emitted
                   /\ call.result.rows[e].result.warning = "None"
                   /\ call.result.rows[e].result.txn.description
                        = Strip(Join(SubSeq(call.result.rows[e].row, 1,
                              RightmostAmount(call.result.rows[e].row) - 1)))
        /\ Len(call.result.transactions)
             = Cardinality({e \in 1..Len(call.result.rows) :
                   RightmostAmount(call.result.rows[e].row) > 1})

\* C24: every transaction emitted from a row of the deposits section has an
\* amount >= 0 and every one from a row of the withdrawals section an
\* amount <= 0, whatever the sign of the printed amount; every transaction
\* of the page comes from a row finalized in one of the two sections, so
\* none is emitted while the section is none
C24_SectionForcesSign ==
    call.op = "_parse_page" =>
        /\ \A e \in 1..Len(call.result.rows) :
              call.result.rows[e].result.emitted =>
                  /\ call.result.rows[e].section
                       \in {"deposits", "withdrawals"}
                  /\ call.result.rows[e].section = "deposits" =>
                        \/ call.result.rows[e].result.txn.amount.sign = 0
                        \/ call.result.rows[e].result.txn.amount.digits = 0
                  /\ call.result.rows[e].section = "withdrawals" =>
                        \/ call.result.rows[e].result.txn.amount.sign = 1
                        \/ call.result.rows[e].result.txn.amount.digits = 0
        /\ call.result.transactions
             = [k \in 1..Len(call.result.transactions) |->
                   SelectSeq(call.result.rows,
                             LAMBDA r : r.result.emitted)[k].result.txn]
        /\ Len(call.result.transactions)
             = Len(SelectSeq(call.result.rows, LAMBDA r : r.result.emitted))
        /\ \A i \in 1..Len(call.lines) :
              ParseLines(PageStart, SubSeq(call.lines, 1, i - 1), 1).section
                  = "None"
              => ParseLine(ParseLines(PageStart,
                                      SubSeq(call.lines, 1, i - 1), 1),
                           i, call.lines[i], LineLower(call.lines[i]))
                     .transactions
                 = ParseLines(PageStart, SubSeq(call.lines, 1, i - 1), 1)
                     .transactions

\* a date-led line before any header has given nothing, and a row of the
\* deposits section printed as (20.00) is emitted with the amount 20.00
C24_Witness ==
    /\ call.op = "_parse_page"
    /\ Len(call.lines) = 3
    /\ DATE_PATTERN(call.lines[1][1])
    /\ Len(call.result.transactions) = 1
    /\ \E e \in 1..Len(call.result.rows) :
          /\ call.result.rows[e].section = "deposits"
          /\ call.result.rows[e].result.emitted
          /\ Head(call.result.rows[e].row[Len(call.result.rows[e].row)])
               = "("
          /\ call.result.rows[e].result.txn.amount = Decimal(0, 2000, 2)

------------------------------------------------------------------------------
(* Claims about the mined priority *)

\* C26: the priority of every candidate lies in 10..100; with the support
\* fixed a higher precision never gives a larger priority, and with the
\* precision fixed a higher support never gives a larger priority
C26_PriorityMonotone ==
    call.op = "_compute_priority" =>
        /\ call.priority \in 10..100
        /\ \A p \in Precisions :
              p[1] * call.den > call.num * p[2]
                  => PriorityOf(p[1], p[2], call.support) <= call.priority
        /\ \A support \in Supports :
              support > call.support
                  => PriorityOf(call.num, call.den, support) <= call.priority

\* a candidate of precision 0.95 and support 10 has the priority 50: higher
\* precisions and higher supports exist and give less
C26_Witness ==
    /\ call.op = "_compute_priority"
    /\ call.num = 19 /\ call.den = 20
    /\ call.support = 10
    /\ call.priority = 50
    /\ PriorityOf(1, 1, 10) < call.priority
    /\ PriorityOf(19, 20, 50) < call.priority

\* C27: a candidate of precision 1.0 and support 50 or more gets the
\* priority 10, and the candidate of precision 0.90 and support 5 gets the
\* priority 100
C27_ScaleReachesBothEnds ==
    call.op = "_compute_priority" =>
        /\ (call.num = call.den /\ call.support >= 50) => call.priority = 10
        /\ (10 * call.num = 9 * call.den /\ call.support = 5)
              => call.priority = 100

------------------------------------------------------------------------------
(* Claims about the automatic operations *)

\* C28: a step of an automatic operation (an import with its sweep, the
\* bulk recategorization, the recategorization of a merchant, the merchant
\* backfill: every step but the user's update) leaves the category of
\* every transaction that is reviewed and has a category
C28_ReviewedCategoryKept ==
    [][used'.updates = used.updates =>
          \A i \in 1..Len(txns) :
              (txns[i].is_reviewed /\ txns[i].category_id # None)
                  => txns'[i].category_id = txns[i].category_id]_vars

------------------------------------------------------------------------------
(* Claims about the Import record *)

\* C29: after every request, ended with a response or with an exception,
\* the imported_count of every Import record is the number of stored
\* transactions of that import
C29_ImportedCountMatchesRows ==
    \A k \in 1..Len(imports) :
        imports[k].imported_count
            = Cardinality({i \in 1..Len(txns) : txns[i].import_id = k})

------------------------------------------------------------------------------
(* Claims about the mined rules and the rule step *)

\* C30: after generate_rules, every rule of a candidate token matches, in
\* the rule step of categorize_transaction, the description of every
\* reviewed transaction that was counted for the token
C30_MinedRuleMatchesSupport ==
    call.op = "generate_rules" =>
        \A token \in CandidateTokens :
            \A r \in RulesFor(rules, token, call.household_id) :
                \A i \in 1..Len(txns) :
                    (/\ TxnHousehold(txns[i]) = call.household_id
                     /\ txns[i].is_reviewed
                     /\ txns[i].category_id # None
                     /\ token \in SeenTokens(Tokenized(<<txns[i]>>)))
                        => RuleMatches(rules[r], txns[i].description)

====
